---- MODULE Spec2Model ----
(***************************************************************************)
(* A model of the mediatimestamp value library: the fixed-point time      *)
(* values TimeOffset (immutable/timeoffset.py) and Timestamp              *)
(* (immutable/timestamp.py), the interval types TimeRange                  *)
(* (immutable/timerange.py), CountRange (count_range.py) and the rate      *)
(* wrapper TimeValue / TimeValueRange (time_value.py,                      *)
(* time_value_range.py).                                                   *)
(*                                                                         *)
(* The library is a set of pure functions over immutable values.  Every    *)
(* method is an operator, written as the Python computes it; the           *)
(* specifications below draw operands from bounded sets and apply the      *)
(* methods to them.                                                        *)
(*                                                                         *)
(* Python integers are unbounded, TLC's are 32 bit: the two constants of   *)
(* the library, MAX_NANOSEC (10^9) and MAX_SECONDS (2^48), are scaled      *)
(* down.  All carries, borrows, sign flips and saturations of the code     *)
(* are expressed in terms of these two names, never of their values.       *)
(***************************************************************************)
EXTENDS Integers, Sequences, FiniteSets, TLC

\* constants.py:22 MAX_NANOSEC = 1000000000, scaled down
MAX_NANOSEC == 3
\* constants.py:23 MAX_SECONDS = 281474976710656, scaled down
MAX_SECONDS == 6
\* integer arguments (multipliers, divisors) range over -MaxInt..MaxInt
MaxInt == 2

None == [cls |-> "None"]

\* A raised exception, as the value of the call that raised it.
Raise(exc) == [cls |-> exc]

IsRaise(v) == v.cls \in {"ValueError", "TsValueError", "TypeError", "ZeroDivisionError"}

\* x = v, then F(x): an assignment to a local.  v is evaluated once and x
\* holds its value, as in the code.
Let(v, F(_)) == CHOOSE r \in {F(x) : x \in {v}} : TRUE

\* The statements after a call: skipped when the call raised (the exception
\* propagates), run on the value x it returned otherwise.
Try(v, F(_)) == Let(v, LAMBDA x : IF IsRaise(x) THEN x ELSE F(x))

\* A plain Python int / bool as a value.
PyInt(v) == [cls |-> "int", v |-> v]

PyBool(v) == [cls |-> "bool", v |-> v]

IsTime(v) == v.cls \in {"TimeOffset", "Timestamp"}

\* Python's abs(), max(), min() on integers.
abs(i) == IF i < 0 THEN -i ELSE i

max(i, j) == IF i >= j THEN i ELSE j

min(i, j) == IF i <= j THEN i ELSE j

\* Python's i // j: floor division.  TLC's \div floors, for a positive divisor.
floordiv(i, j) == IF j > 0 THEN i \div j ELSE (-i) \div (-j)

\* Python's i % j for a positive j: the non-negative remainder.
mod(i, j) == i % j

(***************************************************************************)
(* TimeOffset: the object holds the fields sec, ns, sign.                  *)
(***************************************************************************)

\* TimeOffset._make_valid as a plausible slip: saturation clamps sec only.
TimeOffset_make_valid_NoNsClamp(sec, ns, sign) ==
    Let(<<sec + floordiv(ns, MAX_NANOSEC), mod(ns, MAX_NANOSEC),
          IF sign > 0 \/ (sec = 0 /\ ns = 0) THEN 1 ELSE -1>>,
        LAMBDA c :
    Let(IF c[1] < 0 \/ (c[1] = 0 /\ c[2] < 0) THEN <<-c[1], -c[2], -c[3]>> ELSE c,
        LAMBDA f :
    Let(IF f[2] < 0 THEN <<f[1] - 1, f[2] + MAX_NANOSEC, f[3]>> ELSE f,
        LAMBDA w :
    IF w[1] >= MAX_SECONDS THEN <<MAX_SECONDS - 1, w[2], w[3]>> ELSE w)))

\* TimeOffset._make_valid: returns the tuple (sec, ns, sign).  The four steps
\* of the code in turn: the carry of ns into sec, the sign flip of a negative
\* value, the borrow for a negative ns, the saturation.
TimeOffset_make_valid(sec, ns, sign) ==
    Let(<<sec + floordiv(ns, MAX_NANOSEC), mod(ns, MAX_NANOSEC),
          IF sign > 0 \/ (sec = 0 /\ ns = 0) THEN 1 ELSE -1>>,
        LAMBDA c :
    Let(IF c[1] < 0 \/ (c[1] = 0 /\ c[2] < 0) THEN <<-c[1], -c[2], -c[3]>> ELSE c,
        LAMBDA f :
    Let(IF f[2] < 0 THEN <<f[1] - 1, f[2] + MAX_NANOSEC, f[3]>> ELSE f,
        LAMBDA w :
    IF w[1] >= MAX_SECONDS THEN <<MAX_SECONDS - 1, MAX_NANOSEC - 1, w[3]>> ELSE w)))

\* TimeOffset.__init__
TimeOffset(sec, ns, sign) ==
    Let(TimeOffset_make_valid(sec, ns, sign),
        LAMBDA v : [cls |-> "TimeOffset", sec |-> v[1], ns |-> v[2], sign |-> v[3]])

(***************************************************************************)
(* Timestamp: the object holds the single field _value, signed             *)
(* nanoseconds; sec, ns and sign are properties computed from it.          *)
(***************************************************************************)

\* The largest magnitude a Timestamp holds (value_limit in Timestamp.__init__).
value_limit == MAX_SECONDS * MAX_NANOSEC - 1

\* Timestamp.__init__
Timestamp(sec, ns, sign) ==
    LET sign1 == IF sign < 0 THEN -1 ELSE 1
        value == sign1 * (sec * MAX_NANOSEC + ns)
    IN  [cls |-> "Timestamp", value |-> max(-value_limit, min(value_limit, value))]

\* Timestamp.sec (property)
Timestamp_sec(self) == floordiv(abs(self.value), MAX_NANOSEC)

\* Timestamp.ns (property)
Timestamp_ns(self) == abs(self.value) - Timestamp_sec(self) * MAX_NANOSEC

\* Timestamp.sign (property)
Timestamp_sign(self) == IF self.value < 0 THEN -1 ELSE 1

\* Attribute reads x.sec, x.ns, x.sign on either class.
sec(x) == IF x.cls = "Timestamp" THEN Timestamp_sec(x) ELSE x.sec

ns(x) == IF x.cls = "Timestamp" THEN Timestamp_ns(x) ELSE x.ns

sign(x) == IF x.cls = "Timestamp" THEN Timestamp_sign(x) ELSE x.sign

\* TimeOffset.to_nanosec / Timestamp.to_nanosec
to_nanosec(self) ==
    IF self.cls = "Timestamp" THEN self.value
    ELSE self.sign * (self.sec * MAX_NANOSEC + self.ns)

(***************************************************************************)
(* Conversions between the two classes.  In this source tree Timestamp is  *)
(* not a subclass of TimeOffset: a Timestamp converts to a "TimeOffset"    *)
(* through __mediatimeoffset__ (which returns the Timestamp itself), a     *)
(* TimeOffset has no __mediatimestamp__ and does not convert.              *)
(***************************************************************************)

\* mediatimeoffset(v)
mediatimeoffset(v) ==
    IF v.cls = "TimeOffset" THEN v
    ELSE IF v.cls = "int" THEN TimeOffset(v.v, 0, 1)
    ELSE IF v.cls = "Timestamp" THEN v
    ELSE Raise("ValueError")

\* mediatimestamp(v)
mediatimestamp(v) ==
    IF v.cls = "Timestamp" THEN v
    ELSE IF v.cls = "int" THEN Timestamp(v.v, 0, 1)
    ELSE Raise("ValueError")

(***************************************************************************)
(* TimeOffset methods                                                      *)
(***************************************************************************)

\* TimeOffset.compare
TimeOffset_compare(self, other_in) ==
    Try(mediatimeoffset(other_in), LAMBDA other :
    IF self.sign # sign(other) THEN PyInt(self.sign)
    ELSE IF self.sec < sec(other) THEN PyInt(-self.sign)
    ELSE IF self.sec > sec(other) THEN PyInt(self.sign)
    ELSE IF self.ns < ns(other) THEN PyInt(-self.sign)
    ELSE IF self.ns > ns(other) THEN PyInt(self.sign)
    ELSE PyInt(0))

\* TimeOffset.__eq__: isinstance(other, (int, float, TimeOffset)) and compare == 0
TimeOffset__eq__(self, other) ==
    IF other.cls \in {"int", "TimeOffset"}
    THEN PyBool(TimeOffset_compare(self, other).v = 0)
    ELSE PyBool(FALSE)

\* TimeOffset.__lt__
TimeOffset__lt__(self, other) ==
    Try(TimeOffset_compare(self, other), LAMBDA c : PyBool(c.v < 0))

\* TimeOffset.__gt__
TimeOffset__gt__(self, other) ==
    Try(TimeOffset_compare(self, other), LAMBDA c : PyBool(c.v > 0))

\* TimeOffset.__le__
TimeOffset__le__(self, other) ==
    Try(TimeOffset_compare(self, other), LAMBDA c : PyBool(c.v <= 0))

\* TimeOffset.__ge__
TimeOffset__ge__(self, other) ==
    Try(TimeOffset_compare(self, other), LAMBDA c : PyBool(c.v >= 0))

\* TimeOffset.__abs__
TimeOffset__abs__(self) == TimeOffset(self.sec, self.ns, 1)

\* TimeOffset.__add__ as a plausible slip: the nanoseconds are summed
\* without their signs.
TimeOffset__add__UnsignedNs(self, other_in) ==
    Try(mediatimeoffset(other_in), LAMBDA other :
    Let(<<self.sign * self.sec + sign(other) * sec(other),
          self.ns + ns(other)>>,
        LAMBDA t :
    IF other.cls # "Timestamp"
    THEN TimeOffset(t[1], t[2], 1)
    ELSE Timestamp(t[1], t[2], 1)))

\* TimeOffset.__add__: t is the pair (sec, ns) of the code
TimeOffset__add__(self, other_in) ==
    Try(mediatimeoffset(other_in), LAMBDA other :
    Let(<<self.sign * self.sec + sign(other) * sec(other),
          self.sign * self.ns + sign(other) * ns(other)>>,
        LAMBDA t :
    IF other.cls # "Timestamp"
    THEN TimeOffset(t[1], t[2], 1)
    ELSE Timestamp(t[1], t[2], 1)))

\* TimeOffset.__sub__: self is never a Timestamp here, the result is a TimeOffset
TimeOffset__sub__(self, other_in) ==
    Try(mediatimeoffset(other_in), LAMBDA other :
    TimeOffset(self.sign * self.sec - sign(other) * sec(other),
               self.sign * self.ns - sign(other) * ns(other), 1))

\* TimeOffset.__iadd__: self.__class__(tmp.sec, tmp.ns, tmp.sign)
TimeOffset__iadd__(self, other_in) ==
    Try(mediatimeoffset(other_in), LAMBDA other :
    Let(TimeOffset__add__(self, other),
        LAMBDA tmp : TimeOffset(sec(tmp), ns(tmp), sign(tmp))))

\* TimeOffset.__isub__
TimeOffset__isub__(self, other_in) ==
    Try(mediatimeoffset(other_in), LAMBDA other :
    Let(TimeOffset__sub__(self, other),
        LAMBDA tmp : TimeOffset(sec(tmp), ns(tmp), sign(tmp))))

\* TimeOffset.__mul__
TimeOffset__mul__(self, anint) ==
    LET s0 == self.sec * abs(anint)
        n0 == self.ns * abs(anint)
        g  == IF anint < 0 THEN self.sign * (-1) ELSE self.sign
        s1 == IF n0 >= MAX_NANOSEC THEN s0 + floordiv(n0, MAX_NANOSEC) ELSE s0
        n1 == IF n0 >= MAX_NANOSEC THEN mod(n0, MAX_NANOSEC) ELSE n0
    IN  TimeOffset(s1, n1, g)

\* TimeOffset.__rmul__
TimeOffset__rmul__(self, anint) == TimeOffset__mul__(self, anint)

\* TimeOffset.__floordiv__.  The code computes the nanoseconds as
\*   int((self.ns + (self.sec % abs_anint) * MAX_NANOSEC) / abs_anint + 5e-10)
\* a float quotient plus half a nanosecond-billionth, truncated.  For the
\* magnitudes of this model the quotient's fraction is at most 1 - 1/MaxInt and
\* the float is exact enough, so the truncation is the floor of the quotient.
TimeOffset__floordiv__(self, anint) ==
    IF anint = 0 THEN Raise("ZeroDivisionError")
    ELSE LET abs_anint == abs(anint)
             s0 == floordiv(self.sec, abs_anint)
             n0 == floordiv(self.ns + mod(self.sec, abs_anint) * MAX_NANOSEC, abs_anint)
             s1 == s0 + floordiv(n0, MAX_NANOSEC)
             n1 == mod(n0, MAX_NANOSEC)
             g  == IF anint < 0 THEN self.sign * (-1) ELSE self.sign
         IN  TimeOffset(s1, n1, g)

\* TimeOffset.__truediv__
TimeOffset__truediv__(self, anint) == TimeOffset__floordiv__(self, anint)

(***************************************************************************)
(* Timestamp methods                                                       *)
(***************************************************************************)

\* Timestamp.compare
Timestamp_compare(self, other_in) ==
    Try(mediatimestamp(other_in), LAMBDA other :
    IF self.value > other.value THEN PyInt(1)
    ELSE IF self.value < other.value THEN PyInt(-1)
    ELSE PyInt(0))

\* Timestamp.__eq__: isinstance(other, (int, float, Timestamp)) and compare == 0
Timestamp__eq__(self, other) ==
    IF other.cls \in {"int", "Timestamp"}
    THEN PyBool(Timestamp_compare(self, other).v = 0)
    ELSE PyBool(FALSE)

\* Timestamp.__lt__
Timestamp__lt__(self, other) ==
    Try(Timestamp_compare(self, other), LAMBDA c : PyBool(c.v < 0))

\* Timestamp.__gt__
Timestamp__gt__(self, other) ==
    Try(Timestamp_compare(self, other), LAMBDA c : PyBool(c.v > 0))

\* Timestamp.__le__
Timestamp__le__(self, other) ==
    Try(Timestamp_compare(self, other), LAMBDA c : PyBool(c.v <= 0))

\* Timestamp.__ge__
Timestamp__ge__(self, other) ==
    Try(Timestamp_compare(self, other), LAMBDA c : PyBool(c.v >= 0))

\* Timestamp.__abs__
Timestamp__abs__(self) == Timestamp(Timestamp_sec(self), Timestamp_ns(self), 1)

\* Timestamp.__add__
Timestamp__add__(self, other_in) ==
    Try(mediatimestamp(other_in),
        LAMBDA other : Timestamp(0, self.value + other.value, 1))

\* Timestamp.__sub__
Timestamp__sub__(self, other_in) ==
    Try(mediatimestamp(other_in),
        LAMBDA other : Timestamp(0, self.value - other.value, 1))

\* Timestamp.__iadd__
Timestamp__iadd__(self, other_in) ==
    Try(mediatimestamp(other_in),
        LAMBDA other : Timestamp(0, Timestamp__add__(self, other).value, 1))

\* Timestamp.__isub__
Timestamp__isub__(self, other_in) ==
    Try(mediatimestamp(other_in),
        LAMBDA other : Timestamp(0, Timestamp__sub__(self, other).value, 1))

\* Timestamp.__mul__
Timestamp__mul__(self, anint) == Timestamp(0, self.value * anint, 1)

\* Timestamp.__rmul__
Timestamp__rmul__(self, anint) == Timestamp__mul__(self, anint)

\* Timestamp.__floordiv__
Timestamp__floordiv__(self, anint) ==
    IF anint = 0 THEN Raise("ZeroDivisionError")
    ELSE Timestamp(0, floordiv(self.value, anint), 1)

\* Timestamp.__truediv__
Timestamp__truediv__(self, anint) == Timestamp__floordiv__(self, anint)

(***************************************************************************)
(* Python's operator dispatch on the class of the left operand.            *)
(***************************************************************************)

\* a.compare(b)
compare(x, y) ==
    IF x.cls = "Timestamp" THEN Timestamp_compare(x, y) ELSE TimeOffset_compare(x, y)

\* a == b
eq(x, y) ==
    IF x.cls = "Timestamp" THEN Timestamp__eq__(x, y) ELSE TimeOffset__eq__(x, y)

\* a < b
lt(x, y) ==
    IF x.cls = "Timestamp" THEN Timestamp__lt__(x, y) ELSE TimeOffset__lt__(x, y)

\* a > b
gt(x, y) ==
    IF x.cls = "Timestamp" THEN Timestamp__gt__(x, y) ELSE TimeOffset__gt__(x, y)

\* a <= b
le(x, y) ==
    IF x.cls = "Timestamp" THEN Timestamp__le__(x, y) ELSE TimeOffset__le__(x, y)

\* a >= b
ge(x, y) ==
    IF x.cls = "Timestamp" THEN Timestamp__ge__(x, y) ELSE TimeOffset__ge__(x, y)

\* abs(a)
absolute(x) ==
    IF x.cls = "Timestamp" THEN Timestamp__abs__(x) ELSE TimeOffset__abs__(x)

\* a + b
add(x, y) ==
    IF x.cls = "Timestamp" THEN Timestamp__add__(x, y) ELSE TimeOffset__add__(x, y)

\* a - b
sub(x, y) ==
    IF x.cls = "Timestamp" THEN Timestamp__sub__(x, y) ELSE TimeOffset__sub__(x, y)

\* a += b
iadd(x, y) ==
    IF x.cls = "Timestamp" THEN Timestamp__iadd__(x, y) ELSE TimeOffset__iadd__(x, y)

\* a -= b
isub(x, y) ==
    IF x.cls = "Timestamp" THEN Timestamp__isub__(x, y) ELSE TimeOffset__isub__(x, y)

\* a * k
mul(x, k) ==
    IF x.cls = "Timestamp" THEN Timestamp__mul__(x, k) ELSE TimeOffset__mul__(x, k)

\* k * a
rmul(x, k) ==
    IF x.cls = "Timestamp" THEN Timestamp__rmul__(x, k) ELSE TimeOffset__rmul__(x, k)

\* a // k
floordivide(x, k) ==
    IF x.cls = "Timestamp" THEN Timestamp__floordiv__(x, k) ELSE TimeOffset__floordiv__(x, k)

\* a / k
truedivide(x, k) ==
    IF x.cls = "Timestamp" THEN Timestamp__truediv__(x, k) ELSE TimeOffset__truediv__(x, k)

(***************************************************************************)
(* TimeRange: start and end are None or a Timestamp, inclusivity is two    *)
(* bits.                                                                   *)
(***************************************************************************)

\* TimeRange.EXCLUSIVE, INCLUDE_START, INCLUDE_END, INCLUSIVE (the same values
\* as CountRange's and TimeValueRange's)
EXCLUSIVE == 0
INCLUDE_START == 1
INCLUDE_END == 2
INCLUSIVE == 3

Inclusivities == {EXCLUSIVE, INCLUDE_START, INCLUDE_END, INCLUSIVE}

\* Inclusivity.__and__ on the two flag bits
BitAnd(i, j) ==
    (IF i % 2 = 1 /\ j % 2 = 1 THEN 1 ELSE 0)
    + (IF (i \div 2) % 2 = 1 /\ (j \div 2) % 2 = 1 THEN 2 ELSE 0)

\* Inclusivity.__or__ on the two flag bits
BitOr(i, j) ==
    (IF i % 2 = 1 \/ j % 2 = 1 THEN 1 ELSE 0)
    + (IF (i \div 2) % 2 = 1 \/ (j \div 2) % 2 = 1 THEN 2 ELSE 0)

\* x is None
IsNone(x) == x.cls = "None"

\* x == y where each side is None or a time value
OptEq(x, y) ==
    IF IsNone(x) /\ IsNone(y) THEN TRUE
    ELSE IF IsNone(x) \/ IsNone(y) THEN FALSE
    ELSE eq(x, y).v

\* The pair a method returns.
Tuple(x, y) == [cls |-> "tuple", first |-> x, second |-> y]

\* TimeRange.__init__ as a plausible slip: degenerate bounds are stored as given.
TimeRange_NoNever(start_in, end_in, inclusivity_in) ==
    Try(IF IsNone(start_in) THEN None ELSE mediatimestamp(start_in), LAMBDA start :
    Try(IF IsNone(end_in) THEN None ELSE mediatimestamp(end_in), LAMBDA end :
    [cls |-> "TimeRange", start |-> start, end |-> end,
     inclusivity |-> IF IsNone(start) /\ IsNone(end) THEN INCLUSIVE
                     ELSE inclusivity_in]))

\* TimeRange.__init__
TimeRange(start_in, end_in, inclusivity_in) ==
    Try(IF IsNone(start_in) THEN None ELSE mediatimestamp(start_in), LAMBDA start :
    Try(IF IsNone(end_in) THEN None ELSE mediatimestamp(end_in), LAMBDA end :
    IF /\ ~IsNone(start)
       /\ ~IsNone(end)
       /\ \/ gt(start, end).v
          \/ (eq(start, end).v /\ inclusivity_in # INCLUSIVE)
    THEN [cls |-> "TimeRange", start |-> Timestamp(0, 0, 1),
          end |-> Timestamp(0, 0, 1), inclusivity |-> EXCLUSIVE]
    ELSE [cls |-> "TimeRange", start |-> start, end |-> end,
          inclusivity |-> IF IsNone(start) /\ IsNone(end) THEN INCLUSIVE
                          ELSE inclusivity_in]))

\* TimeRange.from_single_timestamp
TimeRange_from_single_timestamp(ts) ==
    Try(mediatimestamp(ts), LAMBDA t : TimeRange(t, t, INCLUSIVE))

\* mediatimerange(v)
mediatimerange(v) ==
    IF v.cls = "TimeRange" THEN v
    ELSE IF v.cls = "Timestamp" THEN TimeRange_from_single_timestamp(v)
    ELSE Raise("ValueError")

\* TimeRange.bounded_before
TimeRange_bounded_before(self) == ~IsNone(self.start)

\* TimeRange.bounded_after
TimeRange_bounded_after(self) == ~IsNone(self.end)

\* TimeRange.includes_start
TimeRange_includes_start(self) == BitAnd(self.inclusivity, INCLUDE_START) # 0

\* TimeRange.includes_end
TimeRange_includes_end(self) == BitAnd(self.inclusivity, INCLUDE_END) # 0

\* TimeRange.is_empty
TimeRange_is_empty(self) ==
    /\ ~IsNone(self.start)
    /\ ~IsNone(self.end)
    /\ eq(self.start, self.end).v
    /\ self.inclusivity # INCLUSIVE

\* TimeRange.__contains__
TimeRange__contains__(self, ts) ==
    /\ ts.cls \in {"TimeOffset", "Timestamp"}
    /\ Let(mediatimeoffset(ts), LAMBDA t :
       /\ (IsNone(self.start) \/ ge(t, self.start).v)
       /\ (IsNone(self.end) \/ le(t, self.end).v)
       /\ ~ (/\ ~IsNone(self.start)
             /\ eq(t, self.start).v
             /\ BitAnd(self.inclusivity, INCLUDE_START) = 0)
       /\ ~ (/\ ~IsNone(self.end)
             /\ eq(t, self.end).v
             /\ BitAnd(self.inclusivity, INCLUDE_END) = 0))

\* TimeRange.__eq__
TimeRange__eq__(self, other_in) ==
    /\ other_in.cls \in {"TimeRange", "Timestamp"}
    /\ Let(mediatimerange(other_in), LAMBDA other :
       \/ (TimeRange_is_empty(self) /\ TimeRange_is_empty(other))
       \/ /\ \/ (IsNone(self.start) /\ IsNone(other.start))
             \/ /\ OptEq(self.start, other.start)
                /\ BitAnd(self.inclusivity, INCLUDE_START)
                     = BitAnd(other.inclusivity, INCLUDE_START)
          /\ \/ (IsNone(self.end) /\ IsNone(other.end))
             \/ /\ OptEq(self.end, other.end)
                /\ BitAnd(self.inclusivity, INCLUDE_END)
                     = BitAnd(other.inclusivity, INCLUDE_END))

\* TimeRange.starts_earlier_than_timerange
TimeRange_starts_earlier_than_timerange(self, other_in) ==
    Let(mediatimerange(other_in), LAMBDA other :
    /\ ~TimeRange_is_empty(self)
    /\ ~TimeRange_is_empty(other)
    /\ TimeRange_bounded_before(other)
    /\ \/ ~TimeRange_bounded_before(self)
       \/ lt(self.start, other.start).v
       \/ /\ eq(self.start, other.start).v
          /\ TimeRange_includes_start(self)
          /\ ~TimeRange_includes_start(other))

\* TimeRange.ends_later_than_timerange
TimeRange_ends_later_than_timerange(self, other_in) ==
    Let(mediatimerange(other_in), LAMBDA other :
    /\ ~TimeRange_is_empty(self)
    /\ ~TimeRange_is_empty(other)
    /\ TimeRange_bounded_after(other)
    /\ \/ ~TimeRange_bounded_after(self)
       \/ gt(self.end, other.end).v
       \/ /\ eq(self.end, other.end).v
          /\ TimeRange_includes_end(self)
          /\ ~TimeRange_includes_end(other))

\* TimeRange.extend_to_encompass_timerange as a plausible slip: the start
\* flag is always taken from self.
TimeRange_extend_SelfStartFlag(self, other_in) ==
    Try(mediatimerange(other_in), LAMBDA other :
    IF TimeRange_is_empty(self) THEN other
    ELSE IF TimeRange_is_empty(other) THEN self
    ELSE
    Let(IF OptEq(self.start, other.start)
        THEN <<self.start, BitAnd(self.inclusivity, INCLUDE_START)>>
        ELSE IF TimeRange_starts_earlier_than_timerange(self, other)
        THEN <<self.start, BitAnd(self.inclusivity, INCLUDE_START)>>
        ELSE <<other.start, BitAnd(self.inclusivity, INCLUDE_START)>>,
        LAMBDA s :
    Let(IF OptEq(self.end, other.end)
        THEN <<self.end, BitAnd(BitOr(self.inclusivity, other.inclusivity), INCLUDE_END)>>
        ELSE IF TimeRange_ends_later_than_timerange(self, other)
        THEN <<self.end, BitAnd(self.inclusivity, INCLUDE_END)>>
        ELSE <<other.end, BitAnd(other.inclusivity, INCLUDE_END)>>,
        LAMBDA e :
    TimeRange(s[1], e[1], BitOr(BitOr(EXCLUSIVE, s[2]), e[2])))))

\* TimeRange.extend_to_encompass_timerange: s is the pair (start, its flag)
\* chosen by the first if/elif/else, e the pair (end, its flag) of the second.
TimeRange_extend_to_encompass_timerange(self, other_in) ==
    Try(mediatimerange(other_in), LAMBDA other :
    IF TimeRange_is_empty(self) THEN other
    ELSE IF TimeRange_is_empty(other) THEN self
    ELSE
    Let(IF OptEq(self.start, other.start)
        THEN <<self.start, BitAnd(BitOr(self.inclusivity, other.inclusivity), INCLUDE_START)>>
        ELSE IF TimeRange_starts_earlier_than_timerange(self, other)
        THEN <<self.start, BitAnd(self.inclusivity, INCLUDE_START)>>
        ELSE <<other.start, BitAnd(other.inclusivity, INCLUDE_START)>>,
        LAMBDA s :
    Let(IF OptEq(self.end, other.end)
        THEN <<self.end, BitAnd(BitOr(self.inclusivity, other.inclusivity), INCLUDE_END)>>
        ELSE IF TimeRange_ends_later_than_timerange(self, other)
        THEN <<self.end, BitAnd(self.inclusivity, INCLUDE_END)>>
        ELSE <<other.end, BitAnd(other.inclusivity, INCLUDE_END)>>,
        LAMBDA e :
    TimeRange(s[1], e[1], BitOr(BitOr(EXCLUSIVE, s[2]), e[2])))))

\* TimeRange.split_at as a plausible slip: the splitting point is put in
\* the first piece, not the second.
TimeRange_split_at_PointInFirst(self, timestamp_in) ==
    Try(mediatimestamp(timestamp_in), LAMBDA timestamp :
    IF ~TimeRange__contains__(self, timestamp) THEN Raise("ValueError")
    ELSE Tuple(TimeRange(self.start, timestamp,
                         BitOr(BitAnd(self.inclusivity, INCLUDE_START), INCLUDE_END)),
               TimeRange(timestamp, self.end,
                         BitAnd(self.inclusivity, INCLUDE_END))))

\* TimeRange.split_at
TimeRange_split_at(self, timestamp_in) ==
    Try(mediatimestamp(timestamp_in), LAMBDA timestamp :
    IF ~TimeRange__contains__(self, timestamp) THEN Raise("ValueError")
    ELSE Tuple(TimeRange(self.start, timestamp,
                         BitAnd(self.inclusivity, INCLUDE_START)),
               TimeRange(timestamp, self.end,
                         BitOr(INCLUDE_START, BitAnd(self.inclusivity, INCLUDE_END)))))

(***************************************************************************)
(* CountRange: start and end are None or an int.  The constructor stores a *)
(* bounded start inclusive and a bounded end exclusive.                    *)
(***************************************************************************)

\* ~flag on the two flag bits
BitNot(i) == 3 - i

\* CountRange.__init__ as a plausible slip: an exclusive start is marked
\* inclusive without being moved to the next count.
CountRange_StartNotMoved(start_in, end_in, inclusivity_in) ==
    Let(IF ~IsNone(end_in) /\ BitAnd(inclusivity_in, INCLUDE_END) # 0
        THEN <<start_in, PyInt(end_in.v + 1),
               BitAnd(inclusivity_in, BitNot(INCLUDE_END))>>
        ELSE <<start_in, end_in, inclusivity_in>>,
        LAMBDA p :
    Let(IF ~IsNone(p[1]) /\ BitAnd(p[3], INCLUDE_START) = 0
        THEN <<p[1], p[2], BitOr(p[3], INCLUDE_START)>>
        ELSE p,
        LAMBDA q :
    Let(IF /\ ~IsNone(q[1])
           /\ ~IsNone(q[2])
           /\ (q[1].v > q[2].v \/ (q[1].v = q[2].v /\ q[3] # INCLUSIVE))
        THEN <<PyInt(0), PyInt(0), EXCLUSIVE>>
        ELSE q,
        LAMBDA r :
    [cls |-> "CountRange", start |-> r[1], end |-> r[2],
     inclusivity |-> IF IsNone(r[1]) /\ IsNone(r[2]) THEN INCLUSIVE ELSE r[3]])))

\* CountRange.__init__: the triple (start, end, inclusivity) after each of
\* the three normalisations of the code: p with an exclusive end, q with an
\* inclusive start, r with the 'never' case.
CountRange(start_in, end_in, inclusivity_in) ==
    Let(IF ~IsNone(end_in) /\ BitAnd(inclusivity_in, INCLUDE_END) # 0
        THEN <<start_in, PyInt(end_in.v + 1),
               BitAnd(inclusivity_in, BitNot(INCLUDE_END))>>
        ELSE <<start_in, end_in, inclusivity_in>>,
        LAMBDA p :
    Let(IF ~IsNone(p[1]) /\ BitAnd(p[3], INCLUDE_START) = 0
        THEN <<PyInt(p[1].v + 1), p[2], BitOr(p[3], INCLUDE_START)>>
        ELSE p,
        LAMBDA q :
    Let(IF /\ ~IsNone(q[1])
           /\ ~IsNone(q[2])
           /\ (q[1].v > q[2].v \/ (q[1].v = q[2].v /\ q[3] # INCLUSIVE))
        THEN <<PyInt(0), PyInt(0), EXCLUSIVE>>
        ELSE q,
        LAMBDA r :
    [cls |-> "CountRange", start |-> r[1], end |-> r[2],
     inclusivity |-> IF IsNone(r[1]) /\ IsNone(r[2]) THEN INCLUSIVE ELSE r[3]])))

\* CountRange.bounded_before
CountRange_bounded_before(self) == ~IsNone(self.start)

\* CountRange.bounded_after
CountRange_bounded_after(self) == ~IsNone(self.end)

\* CountRange.includes_start
CountRange_includes_start(self) == BitAnd(self.inclusivity, INCLUDE_START) # 0

\* CountRange.includes_end
CountRange_includes_end(self) == BitAnd(self.inclusivity, INCLUDE_END) # 0

\* CountRange.is_empty
CountRange_is_empty(self) ==
    /\ ~IsNone(self.start)
    /\ ~IsNone(self.end)
    /\ self.start.v = self.end.v
    /\ self.inclusivity # INCLUSIVE

\* CountRange.__contains__
CountRange__contains__(self, count) ==
    /\ (IsNone(self.start) \/ count.v >= self.start.v)
    /\ (IsNone(self.end) \/ count.v <= self.end.v)
    /\ ~ (/\ ~IsNone(self.start)
          /\ count.v = self.start.v
          /\ BitAnd(self.inclusivity, INCLUDE_START) = 0)
    /\ ~ (/\ ~IsNone(self.end)
          /\ count.v = self.end.v
          /\ BitAnd(self.inclusivity, INCLUDE_END) = 0)

\* CountRange.__eq__
CountRange__eq__(self, other) ==
    /\ other.cls = "CountRange"
    /\ \/ (CountRange_is_empty(self) /\ CountRange_is_empty(other))
       \/ /\ \/ (IsNone(self.start) /\ IsNone(other.start))
              \/ /\ self.start = other.start
                 /\ BitAnd(self.inclusivity, INCLUDE_START)
                      = BitAnd(other.inclusivity, INCLUDE_START)
          /\ \/ (IsNone(self.end) /\ IsNone(other.end))
              \/ /\ self.end = other.end
                 /\ BitAnd(self.inclusivity, INCLUDE_END)
                      = BitAnd(other.inclusivity, INCLUDE_END)

\* CountRange.starts_earlier_than_range
CountRange_starts_earlier_than_range(self, other) ==
    /\ ~CountRange_is_empty(self)
    /\ ~CountRange_is_empty(other)
    /\ CountRange_bounded_before(other)
    /\ \/ ~CountRange_bounded_before(self)
       \/ self.start.v < other.start.v
       \/ /\ self.start.v = other.start.v
          /\ CountRange_includes_start(self)
          /\ ~CountRange_includes_start(other)

\* CountRange.ends_later_than_range
CountRange_ends_later_than_range(self, other) ==
    /\ ~CountRange_is_empty(self)
    /\ ~CountRange_is_empty(other)
    /\ CountRange_bounded_after(other)
    /\ \/ ~CountRange_bounded_after(self)
       \/ self.end.v > other.end.v
       \/ /\ self.end.v = other.end.v
          /\ CountRange_includes_end(self)
          /\ ~CountRange_includes_end(other)

\* CountRange.extend_to_encompass_range: s is the pair (start, its flag)
\* chosen by the first if/elif/else, e the pair (end, its flag) of the second.
CountRange_extend_to_encompass_range(self, other) ==
    IF CountRange_is_empty(self) THEN other
    ELSE IF CountRange_is_empty(other) THEN self
    ELSE
    Let(IF self.start = other.start
        THEN <<self.start, BitAnd(BitOr(self.inclusivity, other.inclusivity), INCLUDE_START)>>
        ELSE IF CountRange_starts_earlier_than_range(self, other)
        THEN <<self.start, BitAnd(self.inclusivity, INCLUDE_START)>>
        ELSE <<other.start, BitAnd(other.inclusivity, INCLUDE_START)>>,
        LAMBDA s :
    Let(IF self.end = other.end
        THEN <<self.end, BitAnd(BitOr(self.inclusivity, other.inclusivity), INCLUDE_END)>>
        ELSE IF CountRange_ends_later_than_range(self, other)
        THEN <<self.end, BitAnd(self.inclusivity, INCLUDE_END)>>
        ELSE <<other.end, BitAnd(other.inclusivity, INCLUDE_END)>>,
        LAMBDA e :
    CountRange(s[1], e[1], BitOr(BitOr(EXCLUSIVE, s[2]), e[2]))))

\* CountRange.split_at
CountRange_split_at(self, count) ==
    IF ~CountRange__contains__(self, count) THEN Raise("ValueError")
    ELSE Tuple(CountRange(self.start, count, BitAnd(self.inclusivity, INCLUDE_START)),
               CountRange(count, self.end,
                          BitOr(INCLUDE_START, BitAnd(self.inclusivity, INCLUDE_END))))

(***************************************************************************)
(* Rates and the conversions between TimeOffset and media unit counts.     *)
(***************************************************************************)

\* fractions.Fraction, in lowest terms with a positive denominator
Fraction(num, den) == [cls |-> "Fraction", numerator |-> num, denominator |-> den]

\* bool(rate): None and a zero rate are false
Truthy(rate) == ~IsNone(rate) /\ rate.numerator # 0

\* TimeOffset.ROUND_DOWN, ROUND_NEAREST, ROUND_UP
ROUND_DOWN == 0
ROUND_NEAREST == 1
ROUND_UP == 2

\* TimeOffset.get_interval_fraction(rate, factor=factor)
TimeOffset_get_interval_fraction(rate, factor) ==
    IF rate.numerator <= 0 THEN Raise("TsValueError")
    ELSE IF factor < 1 THEN Raise("TsValueError")
    ELSE Let(rate.numerator * factor, LAMBDA d :
         TimeOffset(floordiv(rate.denominator, d),
                    floordiv(MAX_NANOSEC * mod(rate.denominator, d), d),
                    1))

\* TimeOffset.from_count(count, rate.numerator, rate.denominator)
TimeOffset_from_count(count, rate) ==
    IF rate.numerator <= 0 \/ rate.denominator <= 0 THEN Raise("TsValueError")
    ELSE Let(abs(count) * rate.denominator, LAMBDA units :
         TimeOffset(floordiv(units, rate.numerator),
                    floordiv(mod(units, rate.numerator) * MAX_NANOSEC, rate.numerator),
                    IF count < 0 THEN -1 ELSE 1))

\* TimeOffset.to_count(rate.numerator, rate.denominator, rounding)
TimeOffset_to_count(self, rate, rounding) ==
    IF rate.numerator <= 0 \/ rate.denominator <= 0 THEN Raise("TsValueError")
    ELSE
    Let(TimeOffset__abs__(self), LAMBDA abs_off :
    Let(IF self.sign < 0 /\ rounding = ROUND_UP THEN ROUND_DOWN
        ELSE IF self.sign < 0 /\ rounding = ROUND_DOWN THEN ROUND_UP
        ELSE rounding,
        LAMBDA use_rounding :
    Try(IF use_rounding = ROUND_NEAREST THEN TimeOffset_get_interval_fraction(rate, 2)
        ELSE IF use_rounding = ROUND_UP
        THEN Try(TimeOffset_get_interval_fraction(rate, 1),
                 LAMBDA whole : TimeOffset__sub__(whole, TimeOffset(0, 1, 1)))
        ELSE TimeOffset(0, 0, 1),
        LAMBDA rnd_off :
    Let(IF rnd_off.sign > 0 THEN TimeOffset__iadd__(abs_off, rnd_off) ELSE abs_off,
        LAMBDA off :
    PyInt(self.sign
          * (floordiv(off.sec, rate.denominator) * rate.numerator
             + floordiv(mod(off.sec, rate.denominator) * rate.numerator * MAX_NANOSEC
                          + off.ns * rate.numerator,
                        rate.denominator * MAX_NANOSEC)))))))

(***************************************************************************)
(* TimeValue: _value is an int (a count) or a TimeOffset, _rate is None or *)
(* a Fraction.  A TimeOffset given with a rate is stored as a count.       *)
(***************************************************************************)

\* _perform_all_conversions(v)
perform_all_conversions(v) ==
    IF v.cls \in {"int", "TimeOffset", "TimeValue"} THEN v
    ELSE IF v.cls = "Timestamp" THEN mediatimestamp(v)
    ELSE Raise("TypeError")

\* TimeValue._require_rate
TimeValue_require_rate(self) ==
    IF ~Truthy(self.rate) THEN Raise("ValueError") ELSE self.rate

\* TimeValue.as_timeoffset
TimeValue_as_timeoffset(self) ==
    IF self.value.cls = "TimeOffset" THEN self.value
    ELSE Try(TimeValue_require_rate(self),
             LAMBDA rate : TimeOffset_from_count(self.value.v, rate))

\* TimeValue.as_count
TimeValue_as_count(self) ==
    IF self.value.cls = "TimeOffset"
    THEN Try(TimeValue_require_rate(self),
             LAMBDA rate : TimeOffset_to_count(self.value, rate, ROUND_NEAREST))
    ELSE self.value

\* TimeValue.__init__.  convert is the test 'rate and value._rate != rate' on a
\* TimeValue; the try/except around value.as_timeoffset() catches ValueError
\* only.
TimeValue(value_in, rate) ==
    Try(perform_all_conversions(value_in), LAMBDA value :
    IF value.cls \notin {"TimeValue", "TimeOffset", "int"} THEN Raise("TypeError")
    ELSE
    Let(value.cls = "TimeValue" /\ Truthy(rate) /\ value.rate # rate, LAMBDA convert :
    Try(IF convert
        THEN Let(TimeValue_as_timeoffset(value),
                 LAMBDA as_to : IF as_to.cls # "ValueError" THEN as_to ELSE value.value)
        ELSE IF value.cls = "TimeValue" THEN value.value
        ELSE value,
        LAMBDA self_value :
    Let(IF value.cls = "TimeValue" /\ ~convert THEN value.rate ELSE rate,
        LAMBDA self_rate :
    Try(IF self_value.cls = "TimeOffset" /\ Truthy(self_rate)
        THEN TimeOffset_to_count(self_value, self_rate, ROUND_NEAREST)
        ELSE self_value,
        LAMBDA stored :
    [cls |-> "TimeValue", value |-> stored, rate |-> self_rate])))))

\* TimeValue._match_value_type
TimeValue_match_value_type(self, other) ==
    Try(TimeValue(other, self.rate), LAMBDA other_tv :
    IF self.value.cls = "TimeOffset" THEN TimeValue_as_timeoffset(other_tv)
    ELSE TimeValue_as_count(other_tv))

\* x.__eq__(y) for the stored representations: two ints or two TimeOffsets
ValueEq(x, y) == IF x.cls = "int" THEN PyBool(x.v = y.v) ELSE TimeOffset__eq__(x, y)

\* x.__lt__(y) for the stored representations
ValueLt(x, y) == IF x.cls = "int" THEN PyBool(x.v < y.v) ELSE TimeOffset__lt__(x, y)

\* x.__le__(y) for the stored representations
ValueLe(x, y) == IF x.cls = "int" THEN PyBool(x.v <= y.v) ELSE TimeOffset__le__(x, y)

\* x.__gt__(y) for the stored representations
ValueGt(x, y) == IF x.cls = "int" THEN PyBool(x.v > y.v) ELSE TimeOffset__gt__(x, y)

\* x.__ge__(y) for the stored representations
ValueGe(x, y) == IF x.cls = "int" THEN PyBool(x.v >= y.v) ELSE TimeOffset__ge__(x, y)

\* x.__add__(y) for the stored representations
ValueAdd(x, y) == IF x.cls = "int" THEN PyInt(x.v + y.v) ELSE TimeOffset__add__(x, y)

\* TimeValue.__eq__
TimeValue__eq__(self, other) ==
    IF other.cls \notin {"Timestamp", "TimeOffset", "int", "TimeValue"} THEN PyBool(FALSE)
    ELSE Try(TimeValue_match_value_type(self, other),
             LAMBDA other_value : ValueEq(self.value, other_value))

\* TimeValue.__lt__
TimeValue__lt__(self, other) ==
    Try(TimeValue_match_value_type(self, other),
        LAMBDA other_value : ValueLt(self.value, other_value))

\* TimeValue.__le__
TimeValue__le__(self, other) ==
    Try(TimeValue_match_value_type(self, other),
        LAMBDA other_value : ValueLe(self.value, other_value))

\* TimeValue.__gt__
TimeValue__gt__(self, other) ==
    Try(TimeValue_match_value_type(self, other),
        LAMBDA other_value : ValueGt(self.value, other_value))

\* TimeValue.__ge__
TimeValue__ge__(self, other) ==
    Try(TimeValue_match_value_type(self, other),
        LAMBDA other_value : ValueGe(self.value, other_value))

\* TimeValue.__add__
TimeValue__add__(self, other) ==
    Try(TimeValue_match_value_type(self, other),
        LAMBDA other_value : TimeValue(ValueAdd(self.value, other_value), self.rate))

(***************************************************************************)
(* TimeValueRange: _start and _end are None or a TimeValue.  With a rate,  *)
(* or with counts, the constructor stores a bounded start inclusive and a  *)
(* bounded end exclusive.                                                  *)
(***************************************************************************)

\* The end of TimeValueRange.__init__: the 'never' and 'eternity' cases,
\* once the bounds self_start, self_end are normalised TimeValues or None.
\* g is the value of self_start > self_end, e of self_start == self_end.
TimeValueRange_finish(self_start, self_end, self_inclusivity, self_rate) ==
    Try(IF ~IsNone(self_start) /\ ~IsNone(self_end)
        THEN TimeValue__gt__(self_start, self_end) ELSE PyBool(FALSE),
        LAMBDA g :
    Try(IF ~IsNone(self_start) /\ ~IsNone(self_end) /\ ~g.v
        THEN TimeValue__eq__(self_start, self_end) ELSE PyBool(FALSE),
        LAMBDA e :
    IF g.v \/ (e.v /\ self_inclusivity # INCLUSIVE)
    THEN Let(TimeValue(PyInt(0), self_rate), LAMBDA zero :
         [cls |-> "TimeValueRange", start |-> zero, end |-> zero,
          inclusivity |-> EXCLUSIVE, rate |-> self_rate])
    ELSE [cls |-> "TimeValueRange", start |-> self_start, end |-> self_end,
          inclusivity |-> IF IsNone(self_start) /\ IsNone(self_end) THEN INCLUSIVE
                          ELSE self_inclusivity,
          rate |-> self_rate]))

\* The middle of TimeValueRange.__init__: the bounds are TimeValues or None;
\* normalise to an inclusive start and an exclusive end.
TimeValueRange_normalise_bounds(self_start0, self_end, incl0, self_rate) ==
    Try(IF Truthy(self_rate) /\ ~IsNone(self_start0)
        THEN TimeValue(self_start0, self_rate) ELSE self_start0,
        LAMBDA self_start1 :
    LET excSt == /\ ~IsNone(self_start1)
                 /\ (Truthy(self_rate) \/ self_start1.value.cls = "int")
                 /\ BitAnd(incl0, INCLUDE_START) = 0
        incl1 == IF excSt THEN BitOr(incl0, INCLUDE_START) ELSE incl0
        incEnd == /\ ~IsNone(self_end)
                  /\ (Truthy(self_rate) \/ self_end.value.cls = "int")
                  /\ BitAnd(incl1, INCLUDE_END) # 0
        incl2 == IF incEnd THEN BitAnd(incl1, BitNot(INCLUDE_END)) ELSE incl1
    IN  Try(IF excSt THEN TimeValue__add__(self_start1, PyInt(1)) ELSE self_start1,
            LAMBDA self_start2 :
        Try(IF incEnd THEN TimeValue__add__(self_end, PyInt(1)) ELSE self_end,
            LAMBDA self_end2 :
        TimeValueRange_finish(self_start2, self_end2, incl2, self_rate))))

\* TimeValueRange.__init__(start_or_value, end, inclusivity, rate):
\* inclusivity is None (not given) or an int.
TimeValueRange(start_or_value, end_in, inclusivity, rate) ==
    LET isRange == start_or_value.cls \in {"TimeValueRange", "TimeRange", "CountRange"}
        start == IF isRange THEN start_or_value.start ELSE start_or_value
        end   == IF isRange THEN start_or_value.end ELSE end_in
        self_inclusivity ==
            IF ~IsNone(inclusivity) THEN inclusivity.v
            ELSE IF isRange THEN start_or_value.inclusivity
            ELSE INCLUSIVE
        rate1(self_start) == IF IsNone(self_start) THEN rate ELSE self_start.rate
        rate2(self_start, self_end) ==
            IF IsNone(self_end) THEN rate1(self_start) ELSE self_end.rate
    IN  IF /\ ~isRange
           /\ ~IsNone(start_or_value)
           /\ start_or_value.cls \notin {"TimeOffset", "Timestamp", "int", "TimeValue"}
        THEN Raise("ValueError")
        ELSE Try(IF IsNone(start) THEN None ELSE TimeValue(start, rate),
                 LAMBDA self_start :
             Try(IF IsNone(end) THEN None ELSE TimeValue(end, rate1(self_start)),
                 LAMBDA self_end :
             TimeValueRange_normalise_bounds(self_start, self_end, self_inclusivity,
                                             rate2(self_start, self_end))))

\* TimeValueRange._as_time_value
TimeValueRange_as_time_value(self, other) == TimeValue(other, self.rate)

\* TimeValueRange._as_time_value_range
TimeValueRange_as_time_value_range(self, other) ==
    TimeValueRange(other, None, None, self.rate)

\* TimeValueRange.is_empty
TimeValueRange_is_empty(self) ==
    IF IsNone(self.start) \/ IsNone(self.end) THEN PyBool(FALSE)
    ELSE Try(TimeValue__eq__(self.start, self.end),
             LAMBDA e : PyBool(e.v /\ self.inclusivity # INCLUSIVE))

\* x == y where each side is None or a TimeValue
TimeValueOptEq(x, y) ==
    IF IsNone(x) /\ IsNone(y) THEN PyBool(TRUE)
    ELSE IF IsNone(x) \/ IsNone(y) THEN PyBool(FALSE)
    ELSE TimeValue__eq__(x, y)

\* TimeValueRange.__contains__
TimeValueRange__contains__(self, value_in) ==
    Try(TimeValueRange_as_time_value(self, value_in), LAMBDA value :
    Try(IF IsNone(self.start) THEN PyBool(TRUE) ELSE TimeValue__ge__(value, self.start),
        LAMBDA c1 :
    IF ~c1.v THEN PyBool(FALSE) ELSE
    Try(IF IsNone(self.end) THEN PyBool(TRUE) ELSE TimeValue__le__(value, self.end),
        LAMBDA c2 :
    IF ~c2.v THEN PyBool(FALSE) ELSE
    Try(IF IsNone(self.start) THEN PyBool(FALSE) ELSE TimeValue__eq__(value, self.start),
        LAMBDA c3 :
    IF c3.v /\ BitAnd(self.inclusivity, INCLUDE_START) = 0 THEN PyBool(FALSE) ELSE
    Try(IF IsNone(self.end) THEN PyBool(FALSE) ELSE TimeValue__eq__(value, self.end),
        LAMBDA c4 :
    PyBool(~(c4.v /\ BitAnd(self.inclusivity, INCLUDE_END) = 0)))))))

\* TimeValueRange.__eq__
TimeValueRange__eq__(self, other_in) ==
    Let(TimeValueRange_as_time_value_range(self, other_in), LAMBDA other :
    IF IsRaise(other) THEN PyBool(FALSE) ELSE
    Try(TimeValueRange_is_empty(self), LAMBDA se :
    Try(IF se.v THEN TimeValueRange_is_empty(other) ELSE PyBool(FALSE),
        LAMBDA oe :
    IF se.v /\ oe.v THEN PyBool(TRUE) ELSE
    Try(IF IsNone(self.start) /\ IsNone(other.start) THEN PyBool(TRUE)
        ELSE Try(TimeValueOptEq(self.start, other.start),
                 LAMBDA s : PyBool(/\ s.v
                                   /\ BitAnd(self.inclusivity, INCLUDE_START)
                                        = BitAnd(other.inclusivity, INCLUDE_START))),
        LAMBDA starts :
    IF ~starts.v THEN PyBool(FALSE)
    ELSE IF IsNone(self.end) /\ IsNone(other.end) THEN PyBool(TRUE)
    ELSE Try(TimeValueOptEq(self.end, other.end),
             LAMBDA e : PyBool(/\ e.v
                               /\ BitAnd(self.inclusivity, INCLUDE_END)
                                    = BitAnd(other.inclusivity, INCLUDE_END)))))))

\* TimeValueRange.starts_earlier_than_range
TimeValueRange_starts_earlier_than_range(self, other_in) ==
    Try(TimeValueRange_as_time_value_range(self, other_in), LAMBDA other :
    Try(TimeValueRange_is_empty(self), LAMBDA se :
    IF se.v THEN PyBool(FALSE) ELSE
    Try(TimeValueRange_is_empty(other), LAMBDA oe :
    IF oe.v \/ IsNone(other.start) THEN PyBool(FALSE)
    ELSE IF IsNone(self.start) THEN PyBool(TRUE) ELSE
    Try(TimeValue__lt__(self.start, other.start), LAMBDA l :
    IF l.v THEN PyBool(TRUE) ELSE
    Try(TimeValue__eq__(self.start, other.start), LAMBDA e :
    PyBool(/\ e.v
           /\ BitAnd(self.inclusivity, INCLUDE_START) # 0
           /\ BitAnd(other.inclusivity, INCLUDE_START) = 0))))))

\* TimeValueRange.ends_later_than_range
TimeValueRange_ends_later_than_range(self, other_in) ==
    Try(TimeValueRange_as_time_value_range(self, other_in), LAMBDA other :
    Try(TimeValueRange_is_empty(self), LAMBDA se :
    IF se.v THEN PyBool(FALSE) ELSE
    Try(TimeValueRange_is_empty(other), LAMBDA oe :
    IF oe.v \/ IsNone(other.end) THEN PyBool(FALSE)
    ELSE IF IsNone(self.end) THEN PyBool(TRUE) ELSE
    Try(TimeValue__gt__(self.end, other.end), LAMBDA g :
    IF g.v THEN PyBool(TRUE) ELSE
    Try(TimeValue__eq__(self.end, other.end), LAMBDA e :
    PyBool(/\ e.v
           /\ BitAnd(self.inclusivity, INCLUDE_END) # 0
           /\ BitAnd(other.inclusivity, INCLUDE_END) = 0))))))

\* The start (or end) half of extend_to_encompass_range: the bound chosen
\* and its flag, given the outcomes same (the bounds are equal) and mine
\* (self's bound is the outer one).
TimeValueRange_pick(same, mine, self_bound, other_bound, self_incl, other_incl, flag) ==
    IF same.v THEN [bound |-> self_bound, flag |-> BitAnd(BitOr(self_incl, other_incl), flag)]
    ELSE IF mine.v THEN [bound |-> self_bound, flag |-> BitAnd(self_incl, flag)]
    ELSE [bound |-> other_bound, flag |-> BitAnd(other_incl, flag)]

\* TimeValueRange.extend_to_encompass_range
TimeValueRange_extend_to_encompass_range(self, other_in) ==
    Try(TimeValueRange_as_time_value_range(self, other_in), LAMBDA other :
    Try(TimeValueRange_is_empty(self), LAMBDA se :
    IF se.v THEN other ELSE
    Try(TimeValueRange_is_empty(other), LAMBDA oe :
    IF oe.v THEN self ELSE
    Try(TimeValueOptEq(self.start, other.start), LAMBDA sameS :
    Try(IF sameS.v THEN PyBool(FALSE)
        ELSE TimeValueRange_starts_earlier_than_range(self, other),
        LAMBDA mineS :
    Try(TimeValueOptEq(self.end, other.end), LAMBDA sameE :
    Try(IF sameE.v THEN PyBool(FALSE)
        ELSE TimeValueRange_ends_later_than_range(self, other),
        LAMBDA mineE :
    Let(TimeValueRange_pick(sameS, mineS, self.start, other.start,
                            self.inclusivity, other.inclusivity, INCLUDE_START),
        LAMBDA st :
    Let(TimeValueRange_pick(sameE, mineE, self.end, other.end,
                            self.inclusivity, other.inclusivity, INCLUDE_END),
        LAMBDA en :
    TimeValueRange(st.bound, en.bound,
                   PyInt(BitOr(BitOr(EXCLUSIVE, st.flag), en.flag)), None))))))))))

\* TimeValueRange.split_at
TimeValueRange_split_at(self, value_in) ==
    Try(TimeValueRange_as_time_value(self, value_in), LAMBDA value :
    Try(TimeValueRange__contains__(self, value), LAMBDA c :
    IF ~c.v THEN Raise("ValueError") ELSE
    Try(TimeValueRange(self.start, value,
                       PyInt(BitAnd(self.inclusivity, INCLUDE_START)), None),
        LAMBDA left :
    Try(TimeValueRange(value, self.end,
                       PyInt(BitOr(INCLUDE_START, BitAnd(self.inclusivity, INCLUDE_END))),
                       None),
        LAMBDA right :
    Tuple(left, right)))))

(***************************************************************************)
(* State.  A client holds two time values a and b, applies one operation   *)
(* of the library to them and keeps its outcome in res: a returned value,  *)
(* or the exception the call raised.                                       *)
(***************************************************************************)
VARIABLES
    a,      \* left operand: a TimeOffset or a Timestamp
    b,      \* right operand: a TimeOffset or a Timestamp
    n,      \* the integer argument of the last operation (0 if it took none)
    op,     \* the last operation applied
    res,    \* its outcome
    raw,    \* the constructor arguments b was built from, until the first operation
    heap    \* the objects created so far, in creation order (the heap checks only)

vars == <<a, b, n, op, res, raw, heap>>

\* Constructor arguments: any sign argument, seconds and nanoseconds on both
\* sides of the valid interval (negative, carrying, overflowing).
RawInputs ==
    [cls : {"TimeOffset", "Timestamp"},
     sec : -1 .. MAX_SECONDS,
     ns  : -(MAX_NANOSEC + 1) .. (MAX_NANOSEC + 1),
     sign : {-1, 0, 1}]

\* cls(sec, ns, sign)
Construct(r) ==
    IF r.cls = "Timestamp" THEN Timestamp(r.sec, r.ns, r.sign)
    ELSE TimeOffset(r.sec, r.ns, r.sign)

\* Every value a constructor call can return.
Values == {Construct(r) : r \in RawInputs}

Ints == -MaxInt .. MaxInt

Init ==
    /\ raw \in RawInputs
    /\ b = Construct(raw)
    /\ a \in Values
    /\ n = 0
    /\ op = "init"
    /\ res = b
    /\ heap = <<>>

\* The outcome r of operation o with integer argument k; operands stay bound.
Apply(o, k, r) ==
    /\ op' = o
    /\ n' = k
    /\ res' = r
    /\ raw' = None
    /\ UNCHANGED <<a, b, heap>>

Add == Apply("add", 0, add(a, b))

Sub == Apply("sub", 0, sub(a, b))

IAdd == Apply("iadd", 0, iadd(a, b))

ISub == Apply("isub", 0, isub(a, b))

Mul == \E k \in Ints : Apply("mul", k, mul(a, k))

RMul == \E k \in Ints : Apply("rmul", k, rmul(a, k))

FloorDiv == \E k \in Ints : Apply("floordiv", k, floordivide(a, k))

TrueDiv == \E k \in Ints : Apply("truediv", k, truedivide(a, k))

Abs == Apply("abs", 0, absolute(a))

Compare == Apply("compare", 0, compare(a, b))

Eq == Apply("eq", 0, eq(a, b))

Lt == Apply("lt", 0, lt(a, b))

Gt == Apply("gt", 0, gt(a, b))

\* a = res: the client rebinds its left operand to the value just returned,
\* so that operations chain.
Rebind ==
    /\ IsTime(res)
    /\ op # "rebind"
    /\ a' = res
    /\ op' = "rebind"
    /\ n' = 0
    /\ raw' = None
    /\ UNCHANGED <<b, res, heap>>

Next ==
    \/ Add \/ Sub \/ IAdd \/ ISub
    \/ Mul \/ RMul \/ FloorDiv \/ TrueDiv
    \/ Abs \/ Compare \/ Eq \/ Lt \/ Gt
    \/ Rebind

Spec == Init /\ [][Next]_vars

(***************************************************************************)
(* Properties of the arithmetic (specification Spec)                       *)
(***************************************************************************)

\* The sign of an integer: -1, 0 or 1.
Sgn(i) == IF i < 0 THEN -1 ELSE IF i > 0 THEN 1 ELSE 0

\* The fields of v are in their documented intervals and zero is positive.
Valid(v) ==
    /\ 0 <= ns(v) /\ ns(v) < MAX_NANOSEC
    /\ 0 <= sec(v) /\ sec(v) < MAX_SECONDS
    /\ (sec(v) = 0 /\ ns(v) = 0) => sign(v) = 1

\* v is the clamp value of sign sg.
Saturated(v, sg) ==
    /\ sec(v) = MAX_SECONDS - 1
    /\ ns(v) = MAX_NANOSEC - 1
    /\ sign(v) = sg

\* The signed nanoseconds the constructor arguments r denote: each class
\* reads a zero sign argument its own way (TimeOffset as negative,
\* Timestamp as positive).
RawValue(r) ==
    LET sg == IF r.cls = "Timestamp"
              THEN (IF r.sign < 0 THEN -1 ELSE 1)
              ELSE (IF r.sign > 0 THEN 1 ELSE -1)
    IN  sg * (r.sec * MAX_NANOSEC + r.ns)

ArithOps == {"add", "sub", "iadd", "isub", "mul", "rmul"}

\* The unbounded integer result, in nanoseconds, of the last operation.
Exact ==
    IF op \in {"add", "iadd"} THEN to_nanosec(a) + to_nanosec(b)
    ELSE IF op \in {"sub", "isub"} THEN to_nanosec(a) - to_nanosec(b)
    ELSE IF op \in {"mul", "rmul"} THEN to_nanosec(a) * n
    ELSE 0

\* The last operation was given operands it accepts: an integer, or a
\* right operand the left one's class converts (a Timestamp converts a
\* Timestamp only, a TimeOffset converts both).
Accepts == op \in {"mul", "rmul"} \/ a.cls = "TimeOffset" \/ b.cls = "Timestamp"

\* C1: every value returned by a constructor or by an arithmetic operation
\* has 0 <= ns < MAX_NANOSEC, 0 <= sec < MAX_SECONDS, and sign +1 when it is
\* zero.
C1_AlwaysValid == IsTime(res) => Valid(res)

C3_TotalOrder ==
    op \in {"compare", "eq", "lt", "gt"} =>
        LET l == lt(a, b)
            e == eq(a, b)
            g == gt(a, b)
            c == compare(a, b)
        IN  /\ l.cls = "bool" /\ e.cls = "bool" /\ g.cls = "bool" /\ c.cls = "int"
            /\ (l.v /\ ~e.v /\ ~g.v) \/ (~l.v /\ e.v /\ ~g.v) \/ (~l.v /\ ~e.v /\ g.v)
            /\ l.v <=> c.v < 0
            /\ e.v <=> c.v = 0
            /\ g.v <=> c.v > 0

\* C4: the class of a difference.  Timestamp - Timestamp is a TimeOffset,
\* Timestamp - TimeOffset is a Timestamp, TimeOffset - anything is a
\* TimeOffset.
C4_SubResultType ==
    op = "sub" =>
        /\ (a.cls = "Timestamp" /\ b.cls = "Timestamp") => res.cls = "TimeOffset"
        /\ (a.cls = "Timestamp" /\ b.cls = "TimeOffset") => res.cls = "Timestamp"
        /\ a.cls = "TimeOffset" => res.cls = "TimeOffset"

\* C5: x // k and x / k, for a non-zero integer k and x of either class
\* and sign, return the value of floor(x.to_nanosec() / k) nanoseconds.
C5_FloorDivExact ==
    (op \in {"floordiv", "truediv"} /\ n # 0) =>
        /\ IsTime(res)
        /\ to_nanosec(res) = floordiv(to_nanosec(a), n)

MaxTime == 4
\* Counts used as range bounds: -MaxCount .. MaxCount
MaxCount == 3

\* Counts and TimeOffsets used as TimeValueRange bounds: -MaxTV .. MaxTV
MaxTV == 2

TimePoints == {Timestamp(0, v, 1) : v \in -MaxTime .. MaxTime}

CountBounds == {PyInt(v) : v \in -MaxCount .. MaxCount}

\* Points one beyond the bounds on each side: an inclusive end is stored
\* as the next count, exclusive.
CountPoints == {PyInt(v) : v \in -(MaxCount + 1) .. (MaxCount + 1)}

TimeRangeInputs ==
    [cls : {"TimeRange"}, start : TimePoints \cup {None}, end : TimePoints \cup {None},
     inclusivity : Inclusivities]

CountRangeInputs ==
    [cls : {"CountRange"}, start : CountBounds \cup {None}, end : CountBounds \cup {None},
     inclusivity : Inclusivities]

\* TimeValueRange bounds: counts and TimeOffsets (nanoseconds of either sign)
TimeValueBounds ==
    {PyInt(v) : v \in -MaxTV .. MaxTV}
    \cup {TimeOffset(0, abs(v), Sgn(v)) : v \in -MaxTV .. MaxTV}

TimeValuePoints ==
    {PyInt(v) : v \in -(MaxTV + 1) .. (MaxTV + 1)}
    \cup {TimeOffset(0, abs(v), Sgn(v)) : v \in -MaxTV .. MaxTV}

\* No rate, one unit per second, three units in two seconds.
Rates == {None, Fraction(1, 1), Fraction(3, 2)}

TimeValueRangeInputs ==
    [cls : {"TimeValueRange"}, start : TimeValueBounds \cup {None},
     end : TimeValueBounds \cup {None}, inclusivity : Inclusivities, rate : Rates]

\* cls(start, end, inclusivity) / TimeValueRange(start, end, inclusivity, rate)
ConstructRange(r) ==
    IF r.cls = "TimeRange" THEN TimeRange(r.start, r.end, r.inclusivity)
    ELSE IF r.cls = "CountRange" THEN CountRange(r.start, r.end, r.inclusivity)
    ELSE TimeValueRange(r.start, r.end, PyInt(r.inclusivity), r.rate)

\* The points a range of class c is asked about.
PointsOf(c) ==
    IF c = "TimeRange" THEN TimePoints
    ELSE IF c = "CountRange" THEN CountPoints
    ELSE TimeValuePoints

\* p in r
contains(r, p) ==
    IF r.cls = "TimeRange" THEN PyBool(TimeRange__contains__(r, p))
    ELSE IF r.cls = "CountRange" THEN PyBool(CountRange__contains__(r, p))
    ELSE TimeValueRange__contains__(r, p)

\* r.is_empty()
is_empty(r) ==
    IF r.cls = "TimeRange" THEN PyBool(TimeRange_is_empty(r))
    ELSE IF r.cls = "CountRange" THEN PyBool(CountRange_is_empty(r))
    ELSE TimeValueRange_is_empty(r)

\* r == s
range_eq(r, s) ==
    IF r.cls = "TimeRange" THEN PyBool(TimeRange__eq__(r, s))
    ELSE IF r.cls = "CountRange" THEN PyBool(CountRange__eq__(r, s))
    ELSE TimeValueRange__eq__(r, s)

\* r.split_at(p)
split_at(r, p) ==
    IF r.cls = "TimeRange" THEN TimeRange_split_at(r, p)
    ELSE IF r.cls = "CountRange" THEN CountRange_split_at(r, p)
    ELSE TimeValueRange_split_at(r, p)

\* r.extend_to_encompass_timerange(s) / r.extend_to_encompass_range(s)
extend_to_encompass(r, s) ==
    IF r.cls = "TimeRange" THEN TimeRange_extend_to_encompass_timerange(r, s)
    ELSE IF r.cls = "CountRange" THEN CountRange_extend_to_encompass_range(r, s)
    ELSE TimeValueRange_extend_to_encompass_range(r, s)

InitRange ==
    /\ raw \in TimeRangeInputs \cup CountRangeInputs \cup TimeValueRangeInputs
    /\ a = ConstructRange(raw)
    /\ b \in PointsOf(raw.cls)
    /\ n = 0
    /\ op = "init"
    /\ res = a
    /\ heap = <<>>

\* A method call on the range: the result is bound, operands are left alone.
ApplyRange(o, r) ==
    /\ op' = o
    /\ res' = r
    /\ UNCHANGED <<a, b, n, raw, heap>>

\* The constructor raised: there is no range to apply a method to.
Built == ~IsRaise(a)

IsEmpty == Built /\ ApplyRange("is_empty", is_empty(a))

Contains == Built /\ ApplyRange("contains", contains(a, b))

SplitAt == Built /\ ApplyRange("split_at", split_at(a, b))

\* left.extend_to_encompass(right) on the pieces split_at returned
ExtendLeft ==
    /\ op = "split_at"
    /\ res.cls = "tuple"
    /\ ApplyRange("extend_left", extend_to_encompass(res.first, res.second))

\* right.extend_to_encompass(left) on the pieces split_at returned
ExtendRight ==
    /\ op = "split_at"
    /\ res.cls = "tuple"
    /\ ApplyRange("extend_right", extend_to_encompass(res.second, res.first))

NextRange == IsEmpty \/ Contains \/ SplitAt \/ ExtendLeft \/ ExtendRight

SpecRange == InitRange /\ [][NextRange]_vars

-----------------------------------------------------------------------------
\* Range properties (checked under SpecRange)

TRUE_ == PyBool(TRUE)

FALSE_ == PyBool(FALSE)

\* The canonical empty TimeRange
never == [cls |-> "TimeRange", start |-> Timestamp(0, 0, 1),
          end |-> Timestamp(0, 0, 1), inclusivity |-> EXCLUSIVE]

\* C8: TimeRange construction normalises degenerate cases: equal (set)
\* bounds with an inclusivity other than INCLUSIVE give the canonical empty
\* range (Timestamp(0), Timestamp(0), EXCLUSIVE); two None bounds force
\* INCLUSIVE; and is_empty() is true exactly when the constructed range has
\* start == end, both set, and inclusivity other than INCLUSIVE.
C8_TimeRangeNormalised ==
    (raw.cls = "TimeRange") =>
        /\ (~IsNone(raw.start) /\ ~IsNone(raw.end) /\ raw.start = raw.end
              /\ raw.inclusivity # INCLUSIVE) => a = never
        /\ (IsNone(raw.start) /\ IsNone(raw.end)) =>
              (IsNone(a.start) /\ IsNone(a.end) /\ a.inclusivity = INCLUSIVE)
        /\ (op = "is_empty") =>
              (res = TRUE_ <=> (/\ ~IsNone(a.start)
                                /\ ~IsNone(a.end)
                                /\ a.start = a.end
                                /\ a.inclusivity # INCLUSIVE))
        /\ (op = "is_empty") => res \in {TRUE_, FALSE_}

\* Equal bounds with INCLUDE_END: built as the canonical empty range, and
\* is_empty() says so.
C8_Witness ==
    /\ raw.cls = "TimeRange"
    /\ raw.start = Timestamp(0, 1, 1)
    /\ raw.end = Timestamp(0, 1, 1)
    /\ raw.inclusivity = INCLUDE_END
    /\ op = "is_empty"
    /\ res = TRUE_
    /\ a = never

\* q is in exactly one of the two pieces
InExactlyOne(pieces, q) ==
    \/ (contains(pieces.first, q) = TRUE_ /\ contains(pieces.second, q) = FALSE_)
    \/ (contains(pieces.first, q) = FALSE_ /\ contains(pieces.second, q) = TRUE_)

\* q is in neither of the two pieces
InNeither(pieces, q) ==
    contains(pieces.first, q) = FALSE_ /\ contains(pieces.second, q) = FALSE_

\* q is written in the representation of p, or r has a rate to convert it with
SameTimeline(r, p, q) == r.cls # "TimeValueRange" \/ ~IsNone(r.rate) \/ q.cls = p.cls

\* C9: r.split_at(p) with p in r returns (left, right) with p in right and
\* not in left, every point of r in exactly one of the pieces, and no piece
\* holding a point outside r; with p not in r the call raises.  The points
\* are those of the timeline p is on: a range without a rate has no means of
\* placing a point written in another representation.
C9_SplitAtPartitions ==
    (op = "split_at") =>
        IF contains(a, b) = TRUE_
        THEN /\ res.cls = "tuple"
             /\ contains(res.second, b) = TRUE_
             /\ contains(res.first, b) = FALSE_
             /\ \A q \in PointsOf(a.cls) :
                    SameTimeline(a, b, q) =>
                        /\ contains(a, q) \in {TRUE_, FALSE_}
                        /\ (contains(a, q) = TRUE_) => InExactlyOne(res, q)
                        /\ (contains(a, q) = FALSE_) => InNeither(res, q)
        ELSE IsRaise(res)

\* C10: with (left, right) = r.split_at(p), left.extend_to_encompass(right)
\* and right.extend_to_encompass(left) both equal r, and hold the points of r.
C10_SplitThenRejoin ==
    (op \in {"extend_left", "extend_right"}) =>
        /\ range_eq(res, a) = TRUE_
        /\ range_eq(a, res) = TRUE_
        /\ \A q \in PointsOf(a.cls) : contains(res, q) = contains(a, q)

\* A TimeRange with an excluded start and an included end, split at an
\* inner point, and the right piece extended by the left one.
C10_Witness ==
    /\ op = "extend_right"
    /\ res.cls = "TimeRange"
    /\ ~IsNone(a.start)
    /\ a.inclusivity = INCLUDE_END
    /\ is_empty(a) = FALSE_
    /\ b # a.end

-----------------------------------------------------------------------------
(***************************************************************************)
(* Object identity.  Every constructor call makes a new object; heap holds *)
(* the objects in creation order, the client's variable x is bound to the  *)
(* object heap[a].  A method receives references and returns a new object  *)
(* or raises; an attribute assignment goes through the __setattr__ of the  *)
(* object's class.                                                         *)
(***************************************************************************)

\* The objects one client holds.
MaxHeap == 3

Classes == {"TimeOffset", "Timestamp", "TimeRange", "CountRange",
            "TimeValue", "TimeValueRange"}

RangeClasses == {"TimeRange", "CountRange", "TimeValueRange"}

\* The outcome of self.name = value: the object afterwards, and what was raised.
TimeOffset__setattr__(self, name, value) ==
    [obj |-> self, exc |-> Raise("TsValueError")]

Timestamp__setattr__(self, name, value) ==
    [obj |-> self, exc |-> Raise("TsValueError")]

TimeRange__setattr__(self, name, value) ==
    [obj |-> self, exc |-> Raise("TsValueError")]

CountRange__setattr__(self, name, value) ==
    [obj |-> self, exc |-> Raise("ValueError")]

TimeValue__setattr__(self, name, value) ==
    [obj |-> self, exc |-> Raise("ValueError")]

TimeValueRange__setattr__(self, name, value) ==
    [obj |-> self, exc |-> Raise("ValueError")]

\* object.__setattr__, what a class without the override does: it assigns.
object__setattr__(self, name, value) ==
    [obj |-> [self EXCEPT ![name] = value], exc |-> None]

\* self.name = value
setattr(self, name, value) ==
    IF self.cls = "TimeOffset" THEN TimeOffset__setattr__(self, name, value)
    ELSE IF self.cls = "Timestamp" THEN Timestamp__setattr__(self, name, value)
    ELSE IF self.cls = "TimeRange" THEN TimeRange__setattr__(self, name, value)
    ELSE IF self.cls = "CountRange" THEN CountRange__setattr__(self, name, value)
    ELSE IF self.cls = "TimeValue" THEN TimeValue__setattr__(self, name, value)
    ELSE TimeValueRange__setattr__(self, name, value)

Refs == 1 .. Len(heap)

\* The objects a client starts with: two time values, a range and a point,
\* two ranges, or one range.
HeapSeeds ==
    {<<x, y>> : x \in {TimeOffset(0, 1, 1), Timestamp(0, 1, 1)},
                y \in {TimeOffset(1, 0, -1), Timestamp(1, 0, 1)}}
    \cup {<<TimeRange(Timestamp(0, 0, 1), Timestamp(0, 2, 1), INCLUDE_START),
            Timestamp(0, 1, 1)>>,
          <<CountRange(PyInt(0), PyInt(2), INCLUSIVE),
            CountRange(PyInt(1), None, INCLUSIVE)>>,
          <<TimeValueRange(PyInt(0), PyInt(2), PyInt(INCLUSIVE), Fraction(1, 1)),
            TimeValue(TimeOffset(1, 0, 1), None)>>,
          <<TimeRange(Timestamp(0, 0, 1), Timestamp(0, 2, 1), INCLUDE_START)>>,
          <<CountRange(PyInt(0), PyInt(2), INCLUSIVE)>>,
          <<TimeValueRange(PyInt(0), PyInt(2), PyInt(INCLUSIVE), Fraction(1, 1))>>}

\* Arguments written as literals in a call.
Literals == {PyInt(k) : k \in Ints} \cup {Timestamp(0, 1, 1)}

InitHeap ==
    /\ heap \in HeapSeeds
    /\ a = 1
    /\ b = Len(heap)
    /\ n = 0
    /\ op = "init"
    /\ res = None
    /\ raw = None

\* The outcome r of operation o: a returned object (or pair of objects) is
\* new on the heap, a raised exception leaves the heap as it was.
Alloc(o, k, r) ==
    /\ op' = o
    /\ n' = k
    /\ res' = r
    /\ raw' = None
    /\ IF IsRaise(r) THEN heap' = heap
       ELSE IF r.cls = "tuple"
       THEN Len(heap) + 1 < MaxHeap /\ heap' = heap \o <<r.first, r.second>>
       ELSE Len(heap) < MaxHeap /\ heap' = Append(heap, r)

HeapAdd ==
    \E i, j \in Refs :
        /\ IsTime(heap[i]) /\ IsTime(heap[j])
        /\ Alloc("add", 0, add(heap[i], heap[j]))
        /\ UNCHANGED <<a, b>>

HeapSub ==
    \E i, j \in Refs :
        /\ IsTime(heap[i]) /\ IsTime(heap[j])
        /\ Alloc("sub", 0, sub(heap[i], heap[j]))
        /\ UNCHANGED <<a, b>>

\* x += y: x is bound to the object __iadd__ returned
HeapIAdd ==
    \E j \in Refs :
        /\ IsTime(heap[a]) /\ IsTime(heap[j])
        /\ LET r == iadd(heap[a], heap[j])
           IN  /\ Alloc("iadd", 0, r)
               /\ a' = IF IsRaise(r) THEN a ELSE Len(heap) + 1
        /\ UNCHANGED b

\* x -= y
HeapISub ==
    \E j \in Refs :
        /\ IsTime(heap[a]) /\ IsTime(heap[j])
        /\ LET r == isub(heap[a], heap[j])
           IN  /\ Alloc("isub", 0, r)
               /\ a' = IF IsRaise(r) THEN a ELSE Len(heap) + 1
        /\ UNCHANGED b

HeapMul ==
    \E i \in Refs, k \in Ints :
        /\ IsTime(heap[i])
        /\ Alloc("mul", k, mul(heap[i], k))
        /\ UNCHANGED <<a, b>>

HeapFloorDiv ==
    \E i \in Refs, k \in Ints :
        /\ IsTime(heap[i])
        /\ Alloc("floordiv", k, floordivide(heap[i], k))
        /\ UNCHANGED <<a, b>>

HeapAbs ==
    \E i \in Refs :
        /\ IsTime(heap[i])
        /\ Alloc("abs", 0, absolute(heap[i]))
        /\ UNCHANGED <<a, b>>

\* TimeValue(v, rate)
HeapTimeValue ==
    \E i \in Refs, rate \in Rates :
        /\ heap[i].cls \in {"TimeOffset", "Timestamp", "TimeValue"}
        /\ Alloc("TimeValue", 0, TimeValue(heap[i], rate))
        /\ UNCHANGED <<a, b>>

\* v.as_timeoffset()
HeapAsTimeOffset ==
    \E i \in Refs :
        /\ heap[i].cls = "TimeValue"
        /\ Alloc("as_timeoffset", 0, TimeValue_as_timeoffset(heap[i]))
        /\ UNCHANGED <<a, b>>

\* TimeRange.from_single_timestamp(t)
HeapFromSingleTimestamp ==
    \E i \in Refs :
        /\ heap[i].cls = "Timestamp"
        /\ Alloc("from_single_timestamp", 0, TimeRange_from_single_timestamp(heap[i]))
        /\ UNCHANGED <<a, b>>

\* r.split_at(p): p an object of the client or a literal
HeapSplitAt ==
    \E i \in Refs, p \in {heap[j] : j \in Refs} \cup Literals :
        /\ heap[i].cls \in RangeClasses
        /\ \/ heap[i].cls = "TimeRange" /\ p.cls = "Timestamp"
           \/ heap[i].cls = "CountRange" /\ p.cls = "int"
           \/ heap[i].cls = "TimeValueRange" /\ p.cls \in {"int", "TimeOffset", "TimeValue"}
        /\ Alloc("split_at", 0, split_at(heap[i], p))
        /\ UNCHANGED <<a, b>>

\* r.extend_to_encompass_timerange(s) / r.extend_to_encompass_range(s)
HeapExtend ==
    \E i, j \in Refs :
        /\ heap[i].cls \in RangeClasses
        /\ heap[j].cls = heap[i].cls
        /\ Alloc("extend_to_encompass", 0, extend_to_encompass(heap[i], heap[j]))
        /\ UNCHANGED <<a, b>>

\* heap[i].name = heap[j].name, for two objects of one class
SetAttr ==
    \E i, j \in Refs :
        /\ heap[i].cls \in Classes
        /\ heap[j].cls = heap[i].cls
        /\ \E name \in DOMAIN heap[i] \ {"cls"} :
              LET out == setattr(heap[i], name, heap[j][name])
              IN  /\ heap' = [heap EXCEPT ![i] = out.obj]
                  /\ res' = out.exc
        /\ op' = "setattr"
        /\ n' = i
        /\ UNCHANGED <<a, b, raw>>

NextHeap ==
    \/ HeapAdd \/ HeapSub \/ HeapIAdd \/ HeapISub
    \/ HeapMul \/ HeapFloorDiv \/ HeapAbs
    \/ HeapTimeValue \/ HeapAsTimeOffset \/ HeapFromSingleTimestamp
    \/ HeapSplitAt \/ HeapExtend
    \/ SetAttr

SpecHeap == InitHeap /\ [][NextHeap]_vars

\* C7: no operation changes an object that exists: every step leaves each
\* object on the heap as it was (new objects are added after them), and an
\* attribute assignment raises an error.
C7_NoMutation ==
    [][/\ Len(heap') >= Len(heap)
       /\ \A i \in 1 .. Len(heap) : heap'[i] = heap[i]
       /\ (op' = "setattr") => IsRaise(res')]_vars

\* An attribute assignment on a TimeValueRange that a method returned,
\* which raises.
C7_Witness ==
    /\ op = "setattr"
    /\ IsRaise(res)
    /\ Len(heap) = MaxHeap
    /\ heap[n].cls = "TimeValueRange"
    /\ n > 2

-----------------------------------------------------------------------------
(***************************************************************************)
(* Intersection of ranges                                                  *)
(***************************************************************************)

\* TimeRange.never()
TimeRange_never == TimeRange(Timestamp(0, 0, 1), Timestamp(0, 0, 1), EXCLUSIVE)

\* TimeRange.intersect_with as a plausible slip: the end flag is decided by
\* self alone.
TimeRange_intersect_SelfEndFlag(self, tr_in) ==
    Try(mediatimerange(tr_in), LAMBDA tr :
    IF TimeRange_is_empty(self) \/ TimeRange_is_empty(tr) THEN TimeRange_never
    ELSE
    Let(IF ~IsNone(tr.start) /\ (IsNone(self.start) \/ lt(self.start, tr.start).v)
        THEN tr.start ELSE self.start,
        LAMBDA start :
    Let(IF ~IsNone(tr.end) /\ (IsNone(self.end) \/ gt(self.end, tr.end).v)
        THEN tr.end ELSE self.end,
        LAMBDA end :
    IF ~IsNone(start) /\ ~IsNone(end) /\ gt(start, end).v THEN TimeRange_never
    ELSE TimeRange(start, end,
             BitOr(IF \/ IsNone(start)
                      \/ (TimeRange__contains__(self, start) /\ TimeRange__contains__(tr, start))
                   THEN INCLUDE_START ELSE EXCLUSIVE,
                   IF \/ IsNone(end)
                      \/ TimeRange__contains__(self, end)
                   THEN INCLUDE_END ELSE EXCLUSIVE)))))

\* TimeRange.intersect_with
TimeRange_intersect_with(self, tr_in) ==
    Try(mediatimerange(tr_in), LAMBDA tr :
    IF TimeRange_is_empty(self) \/ TimeRange_is_empty(tr) THEN TimeRange_never
    ELSE
    Let(IF ~IsNone(tr.start) /\ (IsNone(self.start) \/ lt(self.start, tr.start).v)
        THEN tr.start ELSE self.start,
        LAMBDA start :
    Let(IF ~IsNone(tr.end) /\ (IsNone(self.end) \/ gt(self.end, tr.end).v)
        THEN tr.end ELSE self.end,
        LAMBDA end :
    IF ~IsNone(start) /\ ~IsNone(end) /\ gt(start, end).v THEN TimeRange_never
    ELSE TimeRange(start, end,
             BitOr(IF \/ IsNone(start)
                      \/ (TimeRange__contains__(self, start) /\ TimeRange__contains__(tr, start))
                   THEN INCLUDE_START ELSE EXCLUSIVE,
                   IF \/ IsNone(end)
                      \/ (TimeRange__contains__(self, end) /\ TimeRange__contains__(tr, end))
                   THEN INCLUDE_END ELSE EXCLUSIVE)))))

\* CountRange.never()
CountRange_never == CountRange(PyInt(0), PyInt(0), EXCLUSIVE)

\* CountRange.intersect_with
CountRange_intersect_with(self, other) ==
    IF CountRange_is_empty(self) \/ CountRange_is_empty(other) THEN CountRange_never
    ELSE
    Let(IF ~IsNone(other.start) /\ (IsNone(self.start) \/ self.start.v < other.start.v)
        THEN other.start ELSE self.start,
        LAMBDA start :
    Let(IF ~IsNone(other.end) /\ (IsNone(self.end) \/ self.end.v > other.end.v)
        THEN other.end ELSE self.end,
        LAMBDA end :
    IF ~IsNone(start) /\ ~IsNone(end) /\ start.v > end.v THEN CountRange_never
    ELSE CountRange(start, end,
             BitOr(IF \/ IsNone(start)
                      \/ (CountRange__contains__(self, start) /\ CountRange__contains__(other, start))
                   THEN INCLUDE_START ELSE EXCLUSIVE,
                   IF \/ IsNone(end)
                      \/ (CountRange__contains__(self, end) /\ CountRange__contains__(other, end))
                   THEN INCLUDE_END ELSE EXCLUSIVE))))

\* TimeValueRange.never()
TimeValueRange_never ==
    TimeValueRange(TimeValue(PyInt(0), None), TimeValue(PyInt(0), None),
                   PyInt(EXCLUSIVE), None)

\* The later of the two starts (lines 423-425 of intersect_with); None is
\* the earliest start.
TimeValueRange_intersect_start(self, other) ==
    Try(IF ~IsNone(other.start) /\ ~IsNone(self.start)
        THEN TimeValue__lt__(self.start, other.start) ELSE PyBool(TRUE),
        LAMBDA sl : IF ~IsNone(other.start) /\ sl.v THEN other.start ELSE self.start)

\* The earlier of the two ends (lines 426-428); None is the latest end.
TimeValueRange_intersect_end(self, other) ==
    Try(IF ~IsNone(other.end) /\ ~IsNone(self.end)
        THEN TimeValue__gt__(self.end, other.end) ELSE PyBool(TRUE),
        LAMBDA eg : IF ~IsNone(other.end) /\ eg.v THEN other.end ELSE self.end)

\* intersect_with after the conversion of other (lines 420-437): what the
\* call goes on to return, the empty range (cls "never") or the range built
\* from the chosen start, end and inclusivity (cls "args").  Each comparison
\* and membership test may raise; the first exception ends the call.  isin
\* holds the outcome of 'x in r' for the chosen bounds and the two ranges;
\* 'x in self and x in other' reads other's entry only when self's is True.
TimeValueRange_intersect_choice(self, other) ==
    Try(TimeValueRange_is_empty(self), LAMBDA self_empty :
    IF self_empty.v THEN [cls |-> "never"] ELSE
    Try(TimeValueRange_is_empty(other), LAMBDA other_empty :
    IF other_empty.v THEN [cls |-> "never"] ELSE
    Try(TimeValueRange_intersect_start(self, other), LAMBDA start :
    Try(TimeValueRange_intersect_end(self, other), LAMBDA end :
    Let([x \in {start, end} \ {None}, r \in {self, other} |->
            TimeValueRange__contains__(r, x)],
        LAMBDA isin :
    Try(IF IsNone(start) THEN PyBool(TRUE)
        ELSE IF isin[start, self] = PyBool(TRUE) THEN isin[start, other]
        ELSE isin[start, self],
        LAMBDA inc_start :
    Try(IF IsNone(end) THEN PyBool(TRUE)
        ELSE IF isin[end, self] = PyBool(TRUE) THEN isin[end, other]
        ELSE isin[end, self],
        LAMBDA inc_end :
    Try(IF ~IsNone(start) /\ ~IsNone(end)
        THEN TimeValue__gt__(start, end) ELSE PyBool(FALSE),
        LAMBDA crossed :
    IF crossed.v THEN [cls |-> "never"]
    ELSE [cls |-> "args", start |-> start, end |-> end,
          inclusivity |-> BitOr(IF inc_start.v THEN INCLUDE_START ELSE EXCLUSIVE,
                                IF inc_end.v THEN INCLUDE_END ELSE EXCLUSIVE)]))))))))

\* TimeValueRange.intersect_with
TimeValueRange_intersect_with(self, other_in) ==
    Try(TimeValueRange_as_time_value_range(self, other_in), LAMBDA other :
    Try(TimeValueRange_intersect_choice(self, other), LAMBDA c :
    IF c.cls = "never" THEN TimeValueRange_never
    ELSE TimeValueRange(c.start, c.end, PyInt(c.inclusivity), None)))

(***************************************************************************)
(* A client holds two ranges a and b of one kind (raw names the kind: the  *)
(* class and, for a TimeValueRange, the representation of the bounds and   *)
(* the rate) and intersects them.                                          *)
(***************************************************************************)

\* Range bounds of the intersection specification: 0 .. MaxBound
MaxBound == 1

\* r.intersect_with(s)
intersect_with(r, s) ==
    IF r.cls = "TimeRange" THEN TimeRange_intersect_with(r, s)
    ELSE IF r.cls = "CountRange" THEN CountRange_intersect_with(r, s)
    ELSE TimeValueRange_intersect_with(r, s)

\* TimeValueRanges without a rate, and with three units in two seconds
IntersectRates == {None, Fraction(3, 2)}

RangeKinds ==
    [cls : {"TimeRange", "CountRange"}]
    \cup [cls : {"TimeValueRange"}, of : {"int", "TimeOffset"}, rate : IntersectRates]

\* The bounds of the ranges of kind k
BoundsOf(k) ==
    {None} \cup
    (IF k.cls = "TimeRange" THEN {Timestamp(0, v, 1) : v \in 0 .. MaxBound}
     ELSE IF k.cls = "CountRange" \/ k.of = "int" THEN {PyInt(v) : v \in 0 .. MaxBound}
     ELSE {TimeOffset(0, v, 1) : v \in 0 .. MaxBound})

\* The ranges of kind k, as their constructor builds them
RangesOf(k) ==
    {ConstructRange(r) :
        r \in IF k.cls = "TimeValueRange"
              THEN [cls : {k.cls}, start : BoundsOf(k), end : BoundsOf(k),
                    inclusivity : Inclusivities, rate : {k.rate}]
              ELSE [cls : {k.cls}, start : BoundsOf(k), end : BoundsOf(k),
                    inclusivity : Inclusivities]}

InitIntersect ==
    /\ raw \in RangeKinds
    /\ a \in RangesOf(raw)
    /\ b \in RangesOf(raw)
    /\ n = 0
    /\ op = "init"
    /\ res = a
    /\ heap = <<>>

\* a.intersect_with(b)
Intersect == Built /\ ApplyRange("intersect", intersect_with(a, b))

\* b.intersect_with(a)
IntersectRev == Built /\ ApplyRange("intersect_rev", intersect_with(b, a))

NextIntersect == Intersect \/ IntersectRev

SpecIntersect == InitIntersect /\ [][NextIntersect]_vars

\* C11: intersect_with is commutative and associative.  For all ranges a, b
\* and c of one kind, a.intersect_with(b) == b.intersect_with(a), and
\* a.intersect_with(b).intersect_with(c) == a.intersect_with(b.intersect_with(c))
\* whenever one of the two is a non-empty range.
C11_IntersectCommAssoc ==
    (op = "intersect") =>
        /\ range_eq(res, intersect_with(b, a)) = TRUE_
        /\ \A c \in RangesOf(raw) :
              LET l == intersect_with(res, c)
                  r == intersect_with(a, intersect_with(b, c))
              IN  (is_empty(l) # TRUE_ \/ is_empty(r) # TRUE_) =>
                      range_eq(l, r) = TRUE_

\* Two overlapping ranges with different flags at a shared bound, whose
\* intersection is a single included point.
C11_Witness ==
    /\ op = "intersect"
    /\ a.cls = "TimeRange"
    /\ is_empty(res) = FALSE_
    /\ ~IsNone(res.start)
    /\ res.start = res.end
    /\ a.inclusivity # b.inclusivity
    /\ \E c \in RangesOf(raw) :
          /\ c # a /\ c # b
          /\ is_empty(intersect_with(res, c)) = FALSE_


(***************************************************************************)
(* Leap seconds: the conversions between a Timestamp (TAI seconds) and     *)
(* unix time (UTC seconds).                                                *)
(***************************************************************************)

\* constants.py:32-62 UTC_LEAP, the rows (UTC second, TAI second - 1) of the
\* leap second insertions, latest first.  Scaled down with MAX_SECONDS to two
\* rows of the same shape as the library's: the earliest row sets the offset
\* to more than one second (10 in the library, 2 here), the next adds one.
UTC_LEAP == << <<2, 4>>, <<1, 2>> >>

\* The index of the first row of UTC_LEAP, in table order, whose column col is
\* at most s (the for loop with its break); 0 when the loop ends without one.
UTC_LEAP_scan(s, col) ==
    IF \E i \in 1 .. Len(UTC_LEAP) : s >= UTC_LEAP[i][col]
    THEN CHOOSE i \in 1 .. Len(UTC_LEAP) :
            /\ s >= UTC_LEAP[i][col]
            /\ \A j \in 1 .. (i - 1) : s < UTC_LEAP[j][col]
    ELSE 0

\* leap_sec after the loop ended at row i
UTC_LEAP_offset(i) == IF i = 0 THEN 0 ELSE (UTC_LEAP[i][2] + 1) - UTC_LEAP[i][1]

\* Timestamp.from_unix(unix_sec, unix_ns, unix_sign, is_leap)
Timestamp_from_unix(unix_sec, unix_ns, unix_sign, is_leap) ==
    Timestamp(unix_sec + (IF unix_sign >= 0
                          THEN UTC_LEAP_offset(UTC_LEAP_scan(unix_sec + (IF is_leap THEN 1 ELSE 0), 1))
                          ELSE 0),
              unix_ns, unix_sign)

\* Timestamp.get_leap_seconds: the scan reads self.sec, the seconds of the
\* magnitude, whatever the sign
Timestamp_get_leap_seconds(self) == UTC_LEAP_offset(UTC_LEAP_scan(Timestamp_sec(self), 2))

\* Timestamp.to_unix: the tuple (seconds, nanoseconds, sign, is_leap)
Timestamp_to_unix(self) ==
    IF self.value < 0
    THEN [cls |-> "tuple", unix_sec |-> Timestamp_sec(self), unix_ns |-> Timestamp_ns(self),
          unix_sign |-> Timestamp_sign(self), is_leap |-> FALSE]
    ELSE LET i == UTC_LEAP_scan(Timestamp_sec(self), 2)
         IN [cls |-> "tuple", unix_sec |-> Timestamp_sec(self) - UTC_LEAP_offset(i),
             unix_ns |-> Timestamp_ns(self), unix_sign |-> Timestamp_sign(self),
             is_leap |-> (i # 0 /\ Timestamp_sec(self) = UTC_LEAP[i][2])]

(***************************************************************************)
(* Parsing of strings.  A Python str is modelled as the sequence of its    *)
(* characters, each a one-character string.                                *)
(***************************************************************************)
DecimalDigits == <<"0", "1", "2", "3", "4", "5", "6", "7", "8", "9">>

\* not (c < '0' or c > '9')
IsDigit(c) == \E d \in 1 .. 10 : DecimalDigits[d] = c

\* int(c) of one decimal digit
DigitValue(c) == (CHOOSE d \in 1 .. 10 : DecimalDigits[d] = c) - 1

\* str.split(sep), sep one character long
RECURSIVE str_split(_, _)
str_split(s, sep) ==
    IF \A i \in 1 .. Len(s) : s[i] # sep THEN <<s>>
    ELSE LET i == CHOOSE i \in 1 .. Len(s) : s[i] = sep /\ \A j \in 1 .. (i - 1) : s[j] # sep
         IN <<SubSeq(s, 1, i - 1)>> \o str_split(SubSeq(s, i + 1, Len(s)), sep)

\* str.startswith(c), c one character long
str_startswith(s, c) == Len(s) > 0 /\ s[1] = c

\* str.endswith(c), c one character long
str_endswith(s, c) == Len(s) > 0 /\ s[Len(s)] = c

\* the number written by a sequence of decimal digits
RECURSIVE DecimalValue(_)
DecimalValue(s) ==
    IF s = <<>> THEN 0 ELSE 10 * DecimalValue(SubSeq(s, 1, Len(s) - 1)) + DigitValue(s[Len(s)])

\* the builtin int(s) of a str without blanks or underscores: an optional
\* sign and at least one decimal digit, the builtin ValueError otherwise
str_int(s) ==
    LET signed == str_startswith(s, "-") \/ str_startswith(s, "+")
        body == IF signed THEN Tail(s) ELSE s
    IN IF body = <<>> \/ \E i \in 1 .. Len(body) : ~IsDigit(body[i]) THEN Raise("ValueError")
       ELSE PyInt((IF str_startswith(s, "-") THEN -1 ELSE 1) * DecimalValue(body))

\* The loop of _parse_seconds_fraction over the characters left, with the
\* values of its locals mult and ns: it ends at the first character that is
\* no digit, or when mult is spent, and drops what is left of frac.
RECURSIVE parse_seconds_fraction_loop(_, _, _)
parse_seconds_fraction_loop(frac, mult, ns_) ==
    IF frac = <<>> THEN ns_
    ELSE IF ~IsDigit(Head(frac)) \/ mult < 1 THEN ns_
    ELSE parse_seconds_fraction_loop(Tail(frac), mult \div 10, ns_ + (mult \div 10) * DigitValue(Head(frac)))

parse_seconds_fraction(frac) == parse_seconds_fraction_loop(frac, MAX_NANOSEC, 0)

\* cls.from_sec_frac(toff_str), the same code in TimeOffset and Timestamp
from_sec_frac(cls, toff_str) ==
    Let(str_split(toff_str, "."), LAMBDA sec_frac :
    IF Len(sec_frac) # 1 /\ Len(sec_frac) # 2 THEN Raise("TsValueError") ELSE
    Try(str_int(sec_frac[1]), LAMBDA sec_ :
    Construct([cls |-> cls,
               sec |-> IF str_startswith(sec_frac[1], "-") THEN abs(sec_.v) ELSE sec_.v,
               ns |-> IF Len(sec_frac) > 1 THEN parse_seconds_fraction(sec_frac[2]) ELSE 0,
               sign |-> IF str_startswith(sec_frac[1], "-") THEN -1 ELSE 1])))

\* cls.from_sec_nsec(toff_str), the same code in TimeOffset and Timestamp
from_sec_nsec(cls, toff_str) ==
    Let(str_split(toff_str, ":"), LAMBDA sec_frac :
    IF Len(sec_frac) # 1 /\ Len(sec_frac) # 2 THEN Raise("TsValueError") ELSE
    Try(str_int(sec_frac[1]), LAMBDA sec_ :
    Try(IF Len(sec_frac) > 1 THEN str_int(sec_frac[2]) ELSE PyInt(0), LAMBDA ns_ :
    Construct([cls |-> cls,
               sec |-> IF str_startswith(sec_frac[1], "-") THEN abs(sec_.v) ELSE sec_.v,
               ns |-> ns_.v,
               sign |-> IF str_startswith(sec_frac[1], "-") THEN -1 ELSE 1]))))

\* _parse_iso8601: the tuple (year, month, day, hours, mins, seconds, ns)
parse_iso8601(iso8601) ==
    Let(str_split(iso8601, "T"), LAMBDA iso_date_time :
    IF Len(iso_date_time) # 2 THEN Raise("TsValueError") ELSE
    Let(<<str_split(iso_date_time[1], "-"), str_split(iso_date_time[2], ":")>>, LAMBDA dt :
    IF Len(dt[1]) # 3 \/ Len(dt[2]) # 3 THEN Raise("TsValueError") ELSE
    Let(str_split(dt[2][3], "."), LAMBDA sec_frac :
    IF Len(sec_frac) # 1 /\ Len(sec_frac) # 2 THEN Raise("TsValueError") ELSE
    Try(str_int(dt[1][1]), LAMBDA year :
    Try(str_int(dt[1][2]), LAMBDA month :
    Try(str_int(dt[1][3]), LAMBDA day :
    Try(str_int(dt[2][1]), LAMBDA hour :
    Try(str_int(dt[2][2]), LAMBDA minute :
    Try(str_int(sec_frac[1]), LAMBDA sec_ :
    [cls |-> "tuple", year |-> year.v, month |-> month.v, day |-> day.v,
     hour |-> hour.v, minute |-> minute.v, second |-> sec_.v,
     ns |-> IF Len(sec_frac) > 1 THEN parse_seconds_fraction(sec_frac[2]) ELSE 0])))))))))

\* the days before 1 January of year, counted from 1 January of year 1
days_before_year(year) ==
    (year - 1) * 365 + floordiv(year - 1, 4) - floordiv(year - 1, 100) + floordiv(year - 1, 400)

\* the days of year before the first of month
days_before_month(year, month) ==
    LET leap == year % 4 = 0 /\ (year % 100 # 0 \/ year % 400 = 0)
        days == <<31, IF leap THEN 29 ELSE 28, 31, 30, 31, 30, 31, 31, 30, 31, 30, 31>>
        sum[m \in 0 .. 12] == IF m = 0 THEN 0 ELSE sum[m - 1] + days[m]
    IN sum[month - 1]

\* calendar.timegm of the standard library: date(year, month, 1) raises the
\* builtin ValueError for a year or month out of range; day, hour, minute
\* and second are not checked
timegm(year, month, day, hour, minute, second) ==
    IF year < 1 \/ year > 9999 \/ month < 1 \/ month > 12 THEN Raise("ValueError")
    ELSE PyInt(((((days_before_year(year) + days_before_month(year, month) + 1)
                  - (days_before_year(1970) + 1) + day - 1) * 24 + hour) * 60 + minute) * 60 + second)

\* Timestamp.from_iso8601_utc
Timestamp_from_iso8601_utc(iso8601utc) ==
    IF ~str_endswith(iso8601utc, "Z") THEN Raise("TsValueError") ELSE
    Try(parse_iso8601(SubSeq(iso8601utc, 1, Len(iso8601utc) - 1)), LAMBDA t :
    Try(timegm(t.year, t.month, t.day, t.hour, t.minute,
               t.second - (IF t.second = 60 THEN 1 ELSE 0)), LAMBDA secs_since_epoch :
    IF secs_since_epoch.v < 0
    THEN Timestamp_from_unix(abs(secs_since_epoch.v) - (IF t.ns > 0 THEN 1 ELSE 0),
                             IF t.ns > 0 THEN MAX_NANOSEC - t.ns ELSE t.ns,
                             -1, t.second = 60)
    ELSE Timestamp_from_unix(secs_since_epoch.v, t.ns, 1, t.second = 60)))

\* TimeOffset.from_str
TimeOffset_from_str(toff_str) ==
    IF \E i \in 1 .. Len(toff_str) : toff_str[i] = "."
    THEN from_sec_frac("TimeOffset", toff_str)
    ELSE from_sec_nsec("TimeOffset", toff_str)

\* Timestamp.from_str of a string without the letter F (a SMPTE time label)
\* and other than "now"
Timestamp_from_str(ts_str) ==
    IF \E i \in 1 .. Len(ts_str) : ts_str[i] = "T" THEN Timestamp_from_iso8601_utc(ts_str)
    ELSE IF \E i \in 1 .. Len(ts_str) : ts_str[i] = "." THEN from_sec_frac("Timestamp", ts_str)
    ELSE from_sec_nsec("Timestamp", ts_str)

(***************************************************************************)
(* Specification of the parsing: a client holds a string raw and hands it  *)
(* to one of the string entry points; res is the value returned or the     *)
(* exception raised.                                                       *)
(***************************************************************************)

\* Strings of at most MaxLen characters, and the same after a date and time
MaxLen == 4

ParseAlphabet == {"0", "1", "-", ".", ":", "x", "Z"}

\* "1970-01-01T00:00:0" and "1969-12-31T23:59:5": the start of an ISO 8601
\* time just after and just before the epoch
IsoPrefixes ==
    {<<"1", "9", "7", "0", "-", "0", "1", "-", "0", "1", "T", "0", "0", ":", "0", "0", ":", "0">>,
     <<"1", "9", "6", "9", "-", "1", "2", "-", "3", "1", "T", "2", "3", ":", "5", "9", ":", "5">>}

ShortStrings == UNION {[1 .. l -> ParseAlphabet] : l \in 0 .. MaxLen}

ParseInputs == ShortStrings \cup {p \o t : p \in IsoPrefixes, t \in ShortStrings}

TimeClasses == {"TimeOffset", "Timestamp"}

InitParse ==
    /\ raw \in ParseInputs
    /\ a = None
    /\ b = None
    /\ n = 0
    /\ op = "init"
    /\ res = None
    /\ heap = <<>>

\* The outcome r of entry point o of class c on the string held.
ApplyParse(o, c, r) ==
    /\ op' = o
    /\ a' = [cls |-> "type", name |-> c]
    /\ res' = r
    /\ UNCHANGED <<b, n, raw, heap>>

FromSecFrac == \E c \in TimeClasses : ApplyParse("from_sec_frac", c, from_sec_frac(c, raw))

FromSecNsec == \E c \in TimeClasses : ApplyParse("from_sec_nsec", c, from_sec_nsec(c, raw))

TimeOffsetFromStr == ApplyParse("from_str", "TimeOffset", TimeOffset_from_str(raw))

TimestampFromStr == ApplyParse("from_str", "Timestamp", Timestamp_from_str(raw))

FromIso8601Utc == ApplyParse("from_iso8601_utc", "Timestamp", Timestamp_from_iso8601_utc(raw))

NextParse ==
    \/ FromSecFrac \/ FromSecNsec
    \/ TimeOffsetFromStr \/ TimestampFromStr
    \/ FromIso8601Utc

SpecParse == InitParse /\ [][NextParse]_vars

\* Well-formed time strings: [-]<sec>.<fraction>, [-]<sec>:<nsec> and
\* YYYY-MM-DDThh:mm:ss[.fraction]Z.
AllDigits(s) == \A i \in 1 .. Len(s) : IsDigit(s[i])

IsSeconds(s) ==
    /\ s # <<>>
    /\ (IF s[1] = "-" THEN Len(s) > 1 /\ AllDigits(Tail(s)) ELSE AllDigits(s))

IsSecFrac(s) ==
    \/ IsSeconds(s)
    \/ \E i \in 1 .. Len(s) :
        s[i] = "." /\ IsSeconds(SubSeq(s, 1, i - 1)) /\ AllDigits(SubSeq(s, i + 1, Len(s)))

IsSecNsec(s) ==
    \/ IsSeconds(s)
    \/ \E i \in 1 .. (Len(s) - 1) :
        s[i] = ":" /\ IsSeconds(SubSeq(s, 1, i - 1)) /\ AllDigits(SubSeq(s, i + 1, Len(s)))

IsIso8601Utc(s) ==
    /\ Len(s) >= 20
    /\ s[Len(s)] = "Z"
    /\ \A i \in 1 .. 19 :
        IF i \in {5, 8} THEN s[i] = "-"
        ELSE IF i = 11 THEN s[i] = "T"
        ELSE IF i \in {14, 17} THEN s[i] = ":"
        ELSE IsDigit(s[i])
    /\ Len(s) > 20 => s[20] = "." /\ Len(s) > 21 /\ AllDigits(SubSeq(s, 21, Len(s) - 1))

WellFormed(o, c, s) ==
    IF o = "from_sec_frac" THEN IsSecFrac(s)
    ELSE IF o = "from_sec_nsec" THEN IsSecNsec(s)
    ELSE IF o = "from_iso8601_utc" THEN IsIso8601Utc(s)
    ELSE IsSecFrac(s) \/ IsSecNsec(s) \/ (c = "Timestamp" /\ IsIso8601Utc(s))

\* C13: every string entry point (from_sec_frac, from_sec_nsec, from_str,
\* from_iso8601_utc) either returns a value for an input that is as a whole a
\* well-formed time string, or raises TsValueError: it returns no value for an
\* input of which only a prefix is well-formed, and raises no other exception.
C13_ParseWholeInput ==
    (op # "init") =>
        IF IsRaise(res) THEN res.cls = "TsValueError" ELSE WellFormed(op, a.name, raw)

\* The entry points return a value only for well-formed input (the first half
\* of C13 alone).
C13_NoPrefixAccepted == (op # "init" /\ ~IsRaise(res)) => WellFormed(op, a.name, raw)

\* The entry points raise no exception other than TsValueError (the second
\* half of C13 alone).
C13_TypedError == (op # "init" /\ IsRaise(res)) => res.cls = "TsValueError"

(***************************************************************************)
(* Specification of the leap second conversions: a client holds two        *)
(* Timestamps a and b and a unix time raw, and converts between them.      *)
(***************************************************************************)

\* Every Timestamp: the values -value_limit .. value_limit.
Timestamps == {[cls |-> "Timestamp", value |-> v] : v \in -value_limit .. value_limit}

\* The arguments of from_unix: seconds and nanoseconds of a unix time, with
\* its sign and the flag of a leap second.
UnixTimes ==
    [cls : {"tuple"}, unix_sec : 0 .. (MAX_SECONDS - 1), unix_ns : 0 .. (MAX_NANOSEC - 1),
     unix_sign : {-1, 1}, is_leap : BOOLEAN]

InitLeap ==
    /\ a \in Timestamps
    /\ b \in Timestamps
    /\ raw = None
    /\ n = 0
    /\ op = "init"
    /\ res = None
    /\ heap = <<>>

\* The outcome r of operation o on a; the unix time held becomes u.
ApplyLeap(o, u, r) ==
    /\ op' = o
    /\ raw' = u
    /\ res' = r
    /\ UNCHANGED <<a, b, n, heap>>

\* a.get_leap_seconds()
GetLeapSeconds == ApplyLeap("get_leap_seconds", None, PyInt(Timestamp_get_leap_seconds(a)))

\* raw = a.to_unix()
ToUnix == ApplyLeap("to_unix", Timestamp_to_unix(a), Timestamp_to_unix(a))

\* Timestamp.from_unix(*raw) of the tuple to_unix returned
FromUnixOfToUnix ==
    /\ op = "to_unix"
    /\ ApplyLeap("from_unix_of_to_unix", raw,
                 Timestamp_from_unix(raw.unix_sec, raw.unix_ns, raw.unix_sign, raw.is_leap))

\* Timestamp.from_unix(unix_sec, unix_ns, unix_sign, is_leap) of any unix time
FromUnix ==
    \E u \in UnixTimes :
        ApplyLeap("from_unix", u, Timestamp_from_unix(u.unix_sec, u.unix_ns, u.unix_sign, u.is_leap))

NextLeap == GetLeapSeconds \/ ToUnix \/ FromUnixOfToUnix \/ FromUnix

SpecLeap == InitLeap /\ [][NextLeap]_vars

\* The signed TAI second a Timestamp lies in: the floor of its value in seconds.
TaiSecond(x) == floordiv(x.value, MAX_NANOSEC)

\* The leap seconds the table gives for a TAI second: the offset of the latest
\* row whose TAI second it has reached, 0 below the earliest row.
TableLeapSeconds(s) ==
    IF \E i \in 1 .. Len(UTC_LEAP) : s >= UTC_LEAP[i][2]
    THEN LET i == CHOOSE i \in 1 .. Len(UTC_LEAP) :
                    s >= UTC_LEAP[i][2] /\ \A j \in 1 .. Len(UTC_LEAP) : s >= UTC_LEAP[j][2] => UTC_LEAP[j][2] <= UTC_LEAP[i][2]
         IN UTC_LEAP[i][2] + 1 - UTC_LEAP[i][1]
    ELSE 0

\* C14: get_leap_seconds() returns, for a Timestamp of either sign, the leap
\* seconds of the table for its TAI second (0 below the earliest row, the
\* offset of the latest row from its TAI second on), and never decreases
\* from a Timestamp to a later one.
C14_LeapSecondsByTable ==
    (op = "get_leap_seconds") =>
        /\ res.v = TableLeapSeconds(TaiSecond(a))
        /\ (b.value >= a.value) => Timestamp_get_leap_seconds(b) >= res.v

\* C15: Timestamp.from_unix(*x.to_unix()) == x for every Timestamp x, and two
\* distinct Timestamps give distinct tuples (unix_sec, unix_ns, sign, is_leap).
C15_UnixRoundTrip ==
    /\ (op = "from_unix_of_to_unix") => res = a
    /\ (op = "to_unix" /\ a # b) => res # Timestamp_to_unix(b)

(***************************************************************************)
(* The kind of the errors raised (specification SpecRange)                 *)
(***************************************************************************)

\* C12: the documented failures are all signalled with the same error kind,
\* TsValueError; of these SpecRange holds split_at on a point that is not
\* contained in the range: it raises TsValueError.
C12_SingleErrorKind ==
    (op = "split_at" /\ contains(a, b) = FALSE_) => res.cls = "TsValueError"

(***************************************************************************)
(* Normalisation to a rate: to_count, from_count, normalise and            *)
(* to_phase_offset of TimeOffset and Timestamp.                            *)
(***************************************************************************)

\* Timestamp.get_interval_fraction(rate.numerator, rate.denominator, factor)
Timestamp_get_interval_fraction(rate, factor) ==
    IF rate.numerator <= 0 \/ rate.denominator <= 0 THEN Raise("TsValueError")
    ELSE IF factor < 1 THEN Raise("TsValueError")
    ELSE Timestamp(0, floordiv(MAX_NANOSEC * rate.denominator, rate.numerator * factor), 1)

\* Timestamp.from_count(count, rate.numerator, rate.denominator)
Timestamp_from_count(count, rate) ==
    IF rate.numerator <= 0 \/ rate.denominator <= 0 THEN Raise("TsValueError")
    ELSE Timestamp(0, floordiv(MAX_NANOSEC * abs(count) * rate.denominator, rate.numerator),
                   IF count < 0 THEN -1 ELSE 1)

\* Timestamp.to_count(rate.numerator, rate.denominator, rounding)
Timestamp_to_count(self, rate, rounding) ==
    IF rate.numerator <= 0 \/ rate.denominator <= 0 THEN Raise("TsValueError")
    ELSE
    Let(IF Timestamp_sign(self) < 0 /\ rounding = ROUND_UP THEN ROUND_DOWN
        ELSE IF Timestamp_sign(self) < 0 /\ rounding = ROUND_DOWN THEN ROUND_UP
        ELSE rounding,
        LAMBDA use_rounding :
    Let(IF use_rounding = ROUND_NEAREST THEN Timestamp_get_interval_fraction(rate, 2).value
        ELSE IF use_rounding = ROUND_UP THEN Timestamp_get_interval_fraction(rate, 1).value - 1
        ELSE 0,
        LAMBDA round_ns :
    PyInt(Timestamp_sign(self)
          * floordiv((abs(self.value) + round_ns) * rate.numerator,
                     MAX_NANOSEC * rate.denominator))))

\* TimeOffset.normalise(rate.numerator, rate.denominator, rounding)
TimeOffset_normalise(self, rate, rounding) ==
    Try(TimeOffset_to_count(self, rate, rounding), LAMBDA count : TimeOffset_from_count(count.v, rate))

\* Timestamp.normalise(rate.numerator, rate.denominator, rounding)
Timestamp_normalise(self, rate, rounding) ==
    Try(Timestamp_to_count(self, rate, rounding), LAMBDA count : Timestamp_from_count(count.v, rate))

\* TimeOffset.to_phase_offset(rate.numerator, rate.denominator)
TimeOffset_to_phase_offset(self, rate) ==
    Try(TimeOffset_normalise(self, rate, ROUND_DOWN), LAMBDA normalised : TimeOffset__sub__(self, normalised))

\* Timestamp.to_phase_offset(rate.numerator, rate.denominator)
Timestamp_to_phase_offset(self, rate) ==
    Try(Timestamp_normalise(self, rate, ROUND_DOWN), LAMBDA normalised : Timestamp__sub__(self, normalised))

\* x.to_count(rate, rounding)
to_count(x, rate, rounding) ==
    IF x.cls = "Timestamp" THEN Timestamp_to_count(x, rate, rounding)
    ELSE TimeOffset_to_count(x, rate, rounding)

\* cls.from_count(count, rate)
from_count(cls, count, rate) ==
    IF cls = "Timestamp" THEN Timestamp_from_count(count, rate) ELSE TimeOffset_from_count(count, rate)

\* x.normalise(rate, rounding)
normalise(x, rate, rounding) ==
    IF x.cls = "Timestamp" THEN Timestamp_normalise(x, rate, rounding)
    ELSE TimeOffset_normalise(x, rate, rounding)

\* x.to_phase_offset(rate)
to_phase_offset(x, rate) ==
    IF x.cls = "Timestamp" THEN Timestamp_to_phase_offset(x, rate) ELSE TimeOffset_to_phase_offset(x, rate)

(***************************************************************************)
(* Specification of the normalisation: a client holds a time value a and   *)
(* a rate raw, and converts a to a count of samples, a count to a time     *)
(* value, or a to the sample instant next to it.                           *)
(***************************************************************************)

\* Sample counts handed to from_count: -MaxSamples .. MaxSamples
MaxSamples == 4

\* The rates: whole and fractional, with a sample interval of a whole number
\* of nanoseconds (1, 3, 1/2, 3/2) and not (2, 2/3), and the invalid rate 0.
SampleRates == {Fraction(1, 1), Fraction(2, 1), Fraction(3, 1), Fraction(1, 2), Fraction(3, 2),
          Fraction(2, 3), Fraction(0, 1)}

Roundings == {ROUND_DOWN, ROUND_NEAREST, ROUND_UP}

InitRate ==
    /\ a \in Values
    /\ raw \in SampleRates
    /\ b = None
    /\ n = 0
    /\ op = "init"
    /\ res = a
    /\ heap = <<>>

\* The outcome r of operation o with the integer argument k (a rounding mode
\* or a count).
ApplyRate(o, k, r) ==
    /\ op' = o
    /\ n' = k
    /\ res' = r
    /\ UNCHANGED <<a, b, raw, heap>>

ToCount == \E m \in Roundings : ApplyRate("to_count", m, to_count(a, raw, m))

FromCount == \E c \in -MaxSamples .. MaxSamples : ApplyRate("from_count", c, from_count(a.cls, c, raw))

Normalise == \E m \in Roundings : ApplyRate("normalise", m, normalise(a, raw, m))

ToPhaseOffset == ApplyRate("to_phase_offset", 0, to_phase_offset(a, raw))

NextRate == ToCount \/ FromCount \/ Normalise \/ ToPhaseOffset

SpecRate == InitRate /\ [][NextRate]_vars

\* x and the sample instants next to it lie inside the range of values: no
\* step of a conversion of x at the rate saturates.
FarFromLimit(x, rate) ==
    abs(to_nanosec(x)) + 2 * to_nanosec(from_count(x.cls, 1, rate)) + 1 < value_limit

\* x is the time value of a whole number of samples at the rate.
IsSampleInstant(x, rate) ==
    \E c \in -(value_limit * rate.numerator) .. (value_limit * rate.numerator) :
        from_count(x.cls, c, rate) = x

\* C16: normalisation is idempotent: x.normalise(r, m).normalise(r, m) is
\* x.normalise(r, m), for every value x, positive rate r and rounding mode m.
C16_NormaliseIdempotent ==
    (op = "normalise" /\ IsTime(res) /\ FarFromLimit(a, raw)) => normalise(res, raw, n) = res

\* C17: x.to_phase_offset(r) is x - x.normalise(r, ROUND_DOWN), is not
\* negative, is less than the sample interval from_count(1, r), and x less
\* the phase offset is a sample instant.
C17_PhaseOffset ==
    (op = "to_phase_offset" /\ IsTime(res) /\ FarFromLimit(a, raw)) =>
        /\ res = sub(a, normalise(a, raw, ROUND_DOWN))
        /\ to_nanosec(res) >= 0
        /\ to_nanosec(res) < to_nanosec(from_count(a.cls, 1, raw))
        /\ IsSampleInstant(sub(a, res), raw)

\* C18: the value of a whole number c of samples, x == from_count(c, r),
\* converts back to c: x.to_count(r, rounding) == c for every rounding mode.
C18_ExactCountRoundTrip ==
    (op = "from_count" /\ IsTime(res) /\ FarFromLimit(res, raw)) =>
        \A m \in Roundings : to_count(res, raw, m) = PyInt(n)

\* C19: x.normalise(r, ROUND_DOWN) <= x and x.normalise(r, ROUND_UP) >= x,
\* and both are sample instants at rate r.
C19_DirectionalNormalise ==
    (op = "normalise" /\ IsTime(res) /\ FarFromLimit(a, raw)) =>
        /\ (n = ROUND_DOWN) => to_nanosec(res) <= to_nanosec(a)
        /\ (n = ROUND_UP) => to_nanosec(res) >= to_nanosec(a)
        /\ IsSampleInstant(res, raw)

(***************************************************************************)
(* TimeRange.at_rate: a generator.  The call returns a generator object    *)
(* and runs no code; each next() runs the body up to the next yield, to    *)
(* the end of the loop (StopIteration), or to an exception.                *)
(***************************************************************************)

\* TimeRange.at_rate, the statements before the loop: the count of the first
\* candidate, or the exception raised
TimeRange_at_rate_first(self, rate, phase_offset_in) ==
    Try(mediatimeoffset(phase_offset_in), LAMBDA phase_offset :
    Try(TimeOffset_from_count(1, rate), LAMBDA interval :
    Try(ge(phase_offset, interval), LAMBDA too_large :
    IF too_large.v THEN Raise("ValueError")
    ELSE IF IsNone(self.start) THEN Raise("ValueError")
    ELSE Try(sub(self.start, phase_offset), LAMBDA first : to_count(first, rate, ROUND_NEAREST)))))

\* TimeRange.at_rate, the loop from the local count on: the Timestamp yielded
\* with the count the generator is suspended at, StopIteration at the break,
\* or the exception raised
RECURSIVE TimeRange_at_rate_loop(_, _, _, _)
TimeRange_at_rate_loop(self, rate, phase_offset, count) ==
    Try(Timestamp_from_count(count, rate), LAMBDA at_count :
    Try(Timestamp__add__(at_count, phase_offset), LAMBDA ts :
    IF Timestamp__lt__(ts, self.start).v
       \/ (BitAnd(self.inclusivity, INCLUDE_START) = 0 /\ Timestamp__eq__(ts, self.start).v)
    THEN TimeRange_at_rate_loop(self, rate, phase_offset, count + 1)
    ELSE IF ~IsNone(self.end)
            /\ (Timestamp__gt__(ts, self.end).v
                \/ (BitAnd(self.inclusivity, INCLUDE_END) = 0 /\ Timestamp__eq__(ts, self.end).v))
    THEN [cls |-> "StopIteration"]
    ELSE [cls |-> "yield", ts |-> ts, count |-> count + 1]))

\* The first next() of the generator of self.at_rate(rate, 1, phase_offset)
TimeRange_at_rate(self, rate, phase_offset) ==
    Try(TimeRange_at_rate_first(self, rate, phase_offset), LAMBDA count :
    TimeRange_at_rate_loop(self, rate, mediatimeoffset(phase_offset), count.v))

\* TimeRange.reversed_at_rate, the statements before the loop: the count of
\* the first candidate, or the exception raised
TimeRange_reversed_at_rate_first(self, rate, phase_offset_in) ==
    Try(mediatimeoffset(phase_offset_in), LAMBDA phase_offset :
    Try(TimeOffset_from_count(1, rate), LAMBDA interval :
    Try(ge(phase_offset, interval), LAMBDA too_large :
    IF too_large.v THEN Raise("ValueError")
    ELSE IF IsNone(self.end) THEN Raise("ValueError")
    ELSE Try(sub(self.end, phase_offset), LAMBDA last : to_count(last, rate, ROUND_NEAREST)))))

\* TimeRange.reversed_at_rate, the loop from the local count on, downwards
RECURSIVE TimeRange_reversed_at_rate_loop(_, _, _, _)
TimeRange_reversed_at_rate_loop(self, rate, phase_offset, count) ==
    Try(Timestamp_from_count(count, rate), LAMBDA at_count :
    Try(Timestamp__add__(at_count, phase_offset), LAMBDA ts :
    IF Timestamp__gt__(ts, self.end).v
       \/ (BitAnd(self.inclusivity, INCLUDE_END) = 0 /\ Timestamp__eq__(ts, self.end).v)
    THEN TimeRange_reversed_at_rate_loop(self, rate, phase_offset, count - 1)
    ELSE IF ~IsNone(self.start)
            /\ (Timestamp__lt__(ts, self.start).v
                \/ (BitAnd(self.inclusivity, INCLUDE_START) = 0 /\ Timestamp__eq__(ts, self.start).v))
    THEN [cls |-> "StopIteration"]
    ELSE [cls |-> "yield", ts |-> ts, count |-> count - 1]))

\* The first next() of the generator of self.reversed_at_rate(rate, 1, phase_offset)
TimeRange_reversed_at_rate(self, rate, phase_offset) ==
    Try(TimeRange_reversed_at_rate_first(self, rate, phase_offset), LAMBDA count :
    TimeRange_reversed_at_rate_loop(self, rate, mediatimeoffset(phase_offset), count.v))

(***************************************************************************)
(* Specification of the iteration: a client holds a TimeRange a, a rate    *)
(* raw and a phase offset b, calls a.at_rate(raw, phase_offset=b) and      *)
(* draws Timestamps from the generator; heap holds the Timestamps yielded  *)
(* and n the count the generator is suspended at.                          *)
(***************************************************************************)

\* the TimeRanges with bounds of 0 .. MaxTime nanoseconds or None
AtRateRanges ==
    {TimeRange(s, e, i) : s \in {None} \cup {Timestamp(0, v, 1) : v \in 0 .. MaxTime},
                          e \in {None} \cup {Timestamp(0, v, 1) : v \in 0 .. MaxTime},
                          i \in Inclusivities}

\* phase offsets as a TimeOffset, a Timestamp or an int
PhaseOffsets ==
    {TimeOffset(0, v, 1) : v \in 0 .. MAX_NANOSEC} \cup {Timestamp(0, 1, 1), PyInt(0)}

InitAtRate ==
    /\ a \in AtRateRanges
    /\ raw \in SampleRates
    /\ b \in PhaseOffsets
    /\ n = 0
    /\ op = "init"
    /\ res = None
    /\ heap = <<>>

\* gen = a.at_rate(raw, phase_offset=b)
AtRate ==
    /\ op = "init"
    /\ op' = "at_rate"
    /\ UNCHANGED <<a, b, n, raw, res, heap>>

\* The outcome r of next(gen): a Timestamp yielded joins heap, anything else
\* ends the generator.
Resume(r) ==
    /\ op' = "next"
    /\ res' = IF r.cls = "yield" THEN r.ts ELSE r
    /\ n' = IF r.cls = "yield" THEN r.count ELSE n
    /\ heap' = IF r.cls = "yield" THEN Append(heap, r.ts) ELSE heap
    /\ UNCHANGED <<a, b, raw>>

\* next(gen): the first one runs the generator from its start, a later one
\* resumes it at its yield.
NextTs ==
    /\ op \in {"at_rate", "next"}
    /\ (op = "next") => (res.cls = "Timestamp" /\ Len(heap) < MaxHeap)
    /\ Resume(IF op = "at_rate" THEN TimeRange_at_rate(a, raw, b)
              ELSE TimeRange_at_rate_loop(a, raw, mediatimeoffset(b), n))

\* gen = a.reversed_at_rate(raw, phase_offset=b)
ReversedAtRate ==
    /\ op = "init"
    /\ op' = "reversed_at_rate"
    /\ UNCHANGED <<a, b, n, raw, res, heap>>

\* The outcome r of next(gen) on the generator of reversed_at_rate
ResumeReversed(r) ==
    /\ op' = "reversed_next"
    /\ res' = IF r.cls = "yield" THEN r.ts ELSE r
    /\ n' = IF r.cls = "yield" THEN r.count ELSE n
    /\ heap' = IF r.cls = "yield" THEN Append(heap, r.ts) ELSE heap
    /\ UNCHANGED <<a, b, raw>>

\* next(gen) on the generator of reversed_at_rate
NextReversedTs ==
    /\ op \in {"reversed_at_rate", "reversed_next"}
    /\ (op = "reversed_next") => (res.cls = "Timestamp" /\ Len(heap) < MaxHeap)
    /\ ResumeReversed(IF op = "reversed_at_rate" THEN TimeRange_reversed_at_rate(a, raw, b)
                      ELSE TimeRange_reversed_at_rate_loop(a, raw, mediatimeoffset(b), n))

NextAtRate == AtRate \/ NextTs \/ ReversedAtRate \/ NextReversedTs

SpecAtRate == InitAtRate /\ [][NextAtRate]_vars

\* The nanoseconds of the instants from_count(k, rate) + phase_offset, k an
\* integer, that the range holds.
SampleInstants(self, rate, phase_offset) ==
    {t \in -value_limit .. value_limit :
        /\ TimeRange__contains__(self, Timestamp(0, t, 1))
        /\ \E k \in -(value_limit * rate.numerator) .. (value_limit * rate.numerator) :
            to_nanosec(Timestamp_from_count(k, rate)) + to_nanosec(phase_offset) = t}

\* The arguments C20 is about: a start, a positive rate and a phase offset
\* from zero to less than a sample interval.
AtRateArguments ==
    /\ ~IsNone(a.start)
    /\ raw.numerator > 0
    /\ b.cls = "TimeOffset"
    /\ to_nanosec(b) < to_nanosec(TimeOffset_from_count(1, raw))

\* C20: for a TimeRange with a start, a positive rate and a phase offset of
\* less than a sample interval, at_rate yields in increasing order the
\* instants from_count(k, rate) + phase_offset that the range holds, a bound
\* included iff it is inclusive, none skipped and none repeated: each next()
\* yields the least such instant after those yielded, and the generator
\* ends when there is none.
C20_AtRateYields ==
    (op = "next" /\ AtRateArguments) =>
        LET todo == {t \in SampleInstants(a, raw, b) :
                        \A i \in 1 .. (Len(heap) - 1) : heap[i].value < t}
        IN IF res.cls = "Timestamp"
           THEN /\ heap # <<>>
                /\ res = heap[Len(heap)]
                /\ res.value \in todo
                /\ \A t \in todo : res.value <= t
           ELSE /\ res.cls = "StopIteration"
                /\ {t \in SampleInstants(a, raw, b) : \A i \in 1 .. Len(heap) : heap[i].value < t} = {}

\* A positive rate and a phase offset from zero to less than a sample interval
RateAndPhaseArguments ==
    /\ raw.numerator > 0
    /\ b.cls = "TimeOffset"
    /\ to_nanosec(b) < to_nanosec(TimeOffset_from_count(1, raw))

\* the Timestamps of heap differ pairwise
NoneRepeated ==
    \A i \in 1 .. Len(heap) : \A j \in 1 .. Len(heap) : (i # j) => (heap[i].value # heap[j].value)

\* C21: with a positive rate and a valid phase offset, iterating a range
\* whose near end (start for at_rate, end for reversed_at_rate) is unbounded
\* raises an error and yields nothing; with a bounded near end the iteration
\* raises nothing: every next() yields a Timestamp when the far end is
\* unbounded (the sequence never ends), and when the far end is bounded the
\* Timestamps yielded are distinct sample instants of the range, so finitely
\* many, before the generator stops.
C21_IterationTerminates ==
    (op \in {"next", "reversed_next"} /\ RateAndPhaseArguments) =>
        IF IsNone(IF op = "next" THEN a.start ELSE a.end)
        THEN IsRaise(res) /\ heap = <<>>
        ELSE /\ res.cls \in {"Timestamp", "StopIteration"}
             /\ IsNone(IF op = "next" THEN a.end ELSE a.start) => res.cls = "Timestamp"
             /\ ~IsNone(IF op = "next" THEN a.end ELSE a.start) =>
                    /\ NoneRepeated
                    /\ \A i \in 1 .. Len(heap) : heap[i].value \in SampleInstants(a, raw, b)

\* list(gen): the Timestamps drawn from a generator whose first next() gave
\* r, up to its end, or the exception raised
RECURSIVE list_at_rate(_, _, _, _, _)
list_at_rate(self, rate, phase_offset, r, acc) ==
    IF r.cls = "yield"
    THEN list_at_rate(self, rate, phase_offset,
                      TimeRange_at_rate_loop(self, rate, phase_offset, r.count), Append(acc, r.ts))
    ELSE IF r.cls = "StopIteration" THEN [cls |-> "list", v |-> acc]
    ELSE r

RECURSIVE list_reversed_at_rate(_, _, _, _, _)
list_reversed_at_rate(self, rate, phase_offset, r, acc) ==
    IF r.cls = "yield"
    THEN list_reversed_at_rate(self, rate, phase_offset,
                               TimeRange_reversed_at_rate_loop(self, rate, phase_offset, r.count),
                               Append(acc, r.ts))
    ELSE IF r.cls = "StopIteration" THEN [cls |-> "list", v |-> acc]
    ELSE r

\* list(reversed(s))
Reverse(s) == [i \in 1 .. Len(s) |-> s[Len(s) + 1 - i]]

\* C22: for a range bounded at both ends, a positive rate and a valid phase
\* offset, when a generator of at_rate or reversed_at_rate has ended it has
\* stopped without an error, and with the sequence it yielded a new call of
\* the same method yields the same sequence and a call of the other method
\* yields the sequence reversed.
C22_ReversedIsReverse ==
    (/\ op \in {"next", "reversed_next"}
     /\ RateAndPhaseArguments
     /\ ~IsNone(a.start) /\ ~IsNone(a.end)
     /\ res.cls # "Timestamp") =>
        /\ res.cls = "StopIteration"
        /\ list_at_rate(a, raw, b, TimeRange_at_rate(a, raw, b), <<>>)
            = [cls |-> "list", v |-> IF op = "next" THEN heap ELSE Reverse(heap)]
        /\ list_reversed_at_rate(a, raw, b, TimeRange_reversed_at_rate(a, raw, b), <<>>)
            = [cls |-> "list", v |-> IF op = "next" THEN Reverse(heap) ELSE heap]

(***************************************************************************)
(* TimeRange.normalise                                                     *)
(***************************************************************************)

\* TimeRange.ROUND_IN .. ROUND_END (ROUND_DOWN, ROUND_NEAREST and ROUND_UP
\* have the values of Timestamp's)
ROUND_IN == 3
ROUND_OUT == 4
ROUND_START == 5
ROUND_END == 6

\* TimeRange.normalise: start_rounding
TimeRange_normalise_start_rounding(rounding) ==
    IF rounding = ROUND_OUT THEN ROUND_DOWN
    ELSE IF rounding = ROUND_IN THEN ROUND_UP
    ELSE IF rounding \in {ROUND_START, ROUND_END} THEN ROUND_NEAREST
    ELSE rounding

\* TimeRange.normalise: end_rounding
TimeRange_normalise_end_rounding(rounding) ==
    IF rounding = ROUND_OUT THEN ROUND_UP
    ELSE IF rounding = ROUND_IN THEN ROUND_DOWN
    ELSE IF rounding \in {ROUND_START, ROUND_END} THEN ROUND_NEAREST
    ELSE rounding

\* TimeRange.normalise: the count of a bound, None for no bound
TimeRange_normalise_count(bound, rate, rounding) ==
    IF IsNone(bound) THEN None ELSE Timestamp_to_count(bound, rate, rounding)

\* TimeRange.normalise: the counts (start, end) before the inclusivity of
\* self is applied
TimeRange_normalise_counts(self, rate, rounding) ==
    Try(TimeRange_normalise_count(self.start, rate, TimeRange_normalise_start_rounding(rounding)),
        LAMBDA start :
    Try(TimeRange_normalise_count(self.end, rate, TimeRange_normalise_end_rounding(rounding)),
        LAMBDA end :
    IF rounding = ROUND_START /\ TimeRange_bounded_before(self) /\ TimeRange_bounded_after(self)
    THEN Tuple(start,
               Timestamp_to_count(self.end, rate,
                                  IF start = Timestamp_to_count(self.start, rate, ROUND_UP)
                                  THEN ROUND_UP ELSE ROUND_DOWN))
    ELSE IF rounding = ROUND_END /\ TimeRange_bounded_before(self) /\ TimeRange_bounded_after(self)
    THEN Tuple(Timestamp_to_count(self.start, rate,
                                  IF end = Timestamp_to_count(self.end, rate, ROUND_UP)
                                  THEN ROUND_UP ELSE ROUND_DOWN),
               end)
    ELSE Tuple(start, end)))

\* TimeRange.normalise: Timestamp.from_count of a count moved on by step,
\* None for no bound
TimeRange_normalise_ts(count, step, rate) ==
    IF IsNone(count) THEN None ELSE Timestamp_from_count(count.v + step, rate)

\* TimeRange.normalise(rate.numerator, rate.denominator, rounding)
TimeRange_normalise(self, rate, rounding) ==
    Try(TimeRange_normalise_counts(self, rate, rounding), LAMBDA counts :
    TimeRange(TimeRange_normalise_ts(counts.first, IF TimeRange_includes_start(self) THEN 0 ELSE 1, rate),
              TimeRange_normalise_ts(counts.second, IF TimeRange_includes_end(self) THEN 1 ELSE 0, rate),
              INCLUDE_START))

(***************************************************************************)
(* Specification of the normalisation of ranges: a client holds a          *)
(* TimeRange a and a rate raw and normalises a, or the range it got, with  *)
(* one of the seven rounding policies.                                     *)
(***************************************************************************)

RangeRoundings == {ROUND_DOWN, ROUND_NEAREST, ROUND_UP, ROUND_IN, ROUND_OUT, ROUND_START, ROUND_END}

\* the TimeRanges with bounds of -MaxTime .. MaxTime nanoseconds or None
NormaliseRanges ==
    {TimeRange(s, e, i) : s \in TimePoints \cup {None}, e \in TimePoints \cup {None},
                          i \in Inclusivities}

InitNormalise ==
    /\ a \in NormaliseRanges
    /\ raw \in SampleRates
    /\ b = None
    /\ n = 0
    /\ op = "init"
    /\ res = None
    /\ heap = <<>>

\* res = a.normalise(raw, rounding=m)
NormaliseRange ==
    \E m \in RangeRoundings :
        /\ op' = "normalise"
        /\ n' = m
        /\ res' = TimeRange_normalise(a, raw, m)
        /\ b' = a
        /\ UNCHANGED <<a, raw, heap>>

\* a = res: the client goes on with the normalised range
Renormalise ==
    /\ op = "normalise"
    /\ res.cls = "TimeRange"
    /\ a' = res
    /\ op' = "keep"
    /\ UNCHANGED <<b, n, raw, res, heap>>

NextNormalise == NormaliseRange \/ Renormalise

SpecNormalise == InitNormalise /\ [][NextNormalise]_vars

\* C23: for every TimeRange, positive rate and rounding policy, normalise
\* returns a TimeRange of inclusivity INCLUDE_START whose start and end,
\* where it has them, are sample instants of the rate.
C23_NormaliseHalfOpen ==
    (op = "normalise" /\ raw.numerator > 0) =>
        /\ res.cls = "TimeRange"
        /\ res.inclusivity = INCLUDE_START
        /\ ~IsNone(res.start) => IsSampleInstant(res.start, raw)
        /\ ~IsNone(res.end) => IsSampleInstant(res.end, raw)

\* the second half of C23 alone: the bounds of the result are sample instants
C23_OnSampleGrid ==
    (op = "normalise" /\ raw.numerator > 0) =>
        /\ res.cls = "TimeRange"
        /\ ~IsNone(res.start) => IsSampleInstant(res.start, raw)
        /\ ~IsNone(res.end) => IsSampleInstant(res.end, raw)

\* the first half of C23 for results that hold a Timestamp and have a bound
C23_HalfOpenUnlessEmptyOrEternity ==
    (/\ op = "normalise" /\ raw.numerator > 0 /\ res.cls = "TimeRange"
     /\ ~TimeRange_is_empty(res)
     /\ ~(IsNone(res.start) /\ IsNone(res.end))) =>
        res.inclusivity = INCLUDE_START

-----------------------------------------------------------------------------
\* CountRange membership (checked under SpecRange)

\* The count p lies between the constructor arguments of r, a bound counted
\* in iff its flag is set
BetweenArguments(r, p) ==
    /\ IsNone(r.start) \/ r.start.v <= p.v
    /\ IsNone(r.end) \/ p.v <= r.end.v
    /\ (~IsNone(r.start) /\ p.v = r.start.v) => BitAnd(r.inclusivity, INCLUDE_START) # 0
    /\ (~IsNone(r.end) /\ p.v = r.end.v) => BitAnd(r.inclusivity, INCLUDE_END) # 0

\* C24: for CountRange(s, e, inclusivity) with s <= e (or a bound left out),
\* a count is in the range exactly when it lies between s and e, s counted
\* in iff INCLUDE_START is set and e iff INCLUDE_END is set, whatever bounds
\* the constructor stored; and is_empty() is true exactly when no count is
\* in the range.
C24_CountRangeMembership ==
    (/\ raw.cls = "CountRange"
     /\ (~IsNone(raw.start) /\ ~IsNone(raw.end)) => raw.start.v <= raw.end.v) =>
        /\ \A p \in CountPoints : CountRange__contains__(a, p) <=> BetweenArguments(raw, p)
        /\ (op = "contains") => (res = PyBool(BetweenArguments(raw, b)))
        /\ CountRange_is_empty(a) <=> (\A p \in CountPoints : ~BetweenArguments(raw, p))
        /\ (op = "is_empty") => (res = PyBool(\A p \in CountPoints : ~CountRange__contains__(a, p)))

\* CountRange(0, 2, EXCLUSIVE) is stored as [1, 2): 1 in it is True.
C24_Witness ==
    /\ raw.cls = "CountRange"
    /\ raw.start = PyInt(0)
    /\ raw.end = PyInt(2)
    /\ raw.inclusivity = EXCLUSIVE
    /\ a.start = PyInt(1)
    /\ a.inclusivity = INCLUDE_START
    /\ b = PyInt(1)
    /\ op = "contains"
    /\ res = TRUE_

(***************************************************************************)
(* TimeValue arithmetic                                                    *)
(***************************************************************************)

\* x.__sub__(y) for the stored representations
ValueSub(x, y) == IF x.cls = "int" THEN PyInt(x.v - y.v) ELSE TimeOffset__sub__(x, y)

\* x.__mul__(k) for the stored representations
ValueMul(x, k) == IF x.cls = "int" THEN PyInt(x.v * k) ELSE TimeOffset__mul__(x, k)

\* x.__floordiv__(k) for the stored representations
ValueFloorDiv(x, k) ==
    IF x.cls = "int" THEN (IF k = 0 THEN Raise("ZeroDivisionError") ELSE PyInt(floordiv(x.v, k)))
    ELSE TimeOffset__floordiv__(x, k)

\* x.__abs__() for the stored representations
ValueAbs(x) == IF x.cls = "int" THEN PyInt(abs(x.v)) ELSE TimeOffset__abs__(x)

\* TimeValue.__sub__
TimeValue__sub__(self, other) ==
    Try(TimeValue_match_value_type(self, other),
        LAMBDA other_value : TimeValue(ValueSub(self.value, other_value), self.rate))

\* TimeValue.__mul__ (anint is an int: _check_is_int passes)
TimeValue__mul__(self, anint) == TimeValue(ValueMul(self.value, anint), self.rate)

\* TimeValue.__floordiv__ (anint is an int: _check_is_int passes)
TimeValue__floordiv__(self, anint) ==
    Try(ValueFloorDiv(self.value, anint), LAMBDA quotient : TimeValue(quotient, self.rate))

\* TimeValue.__abs__
TimeValue__abs__(self) == TimeValue(ValueAbs(self.value), self.rate)

(***************************************************************************)
(* Specification of TimeValue: a client builds a TimeValue a from a        *)
(* payload and a rate (raw), holds a second value b, a TimeValue or a      *)
(* payload, and applies TimeValue's operators to them; it can go on with   *)
(* the TimeValue an operator returned.                                     *)
(***************************************************************************)

\* no rate, a zero rate, and rates with a sample interval of a whole number
\* of nanoseconds (1, 3/2) and not (2)
TimeValueRates == {None, Fraction(0, 1), Fraction(1, 1), Fraction(2, 1), Fraction(3, 2)}

\* counts and TimeOffsets of -MaxTV .. MaxTV, Timestamps of 0 .. MaxTV
TimeValuePayloads ==
    TimeValueBounds \cup {Timestamp(0, v, 1) : v \in 0 .. MaxTV}

\* the TimeValues a client can build, and the payloads
TimeValueOperands ==
    {v \in {TimeValue(p, r) : p \in TimeValuePayloads, r \in TimeValueRates} : v.cls = "TimeValue"}
    \cup TimeValuePayloads

InitTimeValue ==
    /\ raw \in [cls : {"TimeValue"}, value : TimeValuePayloads, rate : TimeValueRates]
    /\ a = TimeValue(raw.value, raw.rate)
    /\ b \in TimeValueOperands
    /\ n = 0
    /\ op = "init"
    /\ res = a
    /\ heap = <<>>

\* The outcome r of operator o of the TimeValue a with the integer argument k
ApplyTimeValue(o, k, r) ==
    /\ a.cls = "TimeValue"
    /\ op' = o
    /\ n' = k
    /\ res' = r
    /\ UNCHANGED <<a, b, raw, heap>>

TimeValueAdd == ApplyTimeValue("add", 0, TimeValue__add__(a, b))

TimeValueSub == ApplyTimeValue("sub", 0, TimeValue__sub__(a, b))

TimeValueMul == \E k \in Ints : ApplyTimeValue("mul", k, TimeValue__mul__(a, k))

TimeValueFloorDiv == \E k \in Ints : ApplyTimeValue("floordiv", k, TimeValue__floordiv__(a, k))

TimeValueAbs == ApplyTimeValue("abs", 0, TimeValue__abs__(a))

TimeValueEq == ApplyTimeValue("eq", 0, TimeValue__eq__(a, b))

\* TimeValue(a, rate=r)
TimeValueWithRate == \E r \in TimeValueRates : ApplyTimeValue("with_rate", 0, TimeValue(a, r))

\* a = res: the client goes on with the TimeValue just returned (counts
\* within -MaxCount .. MaxCount)
TimeValueRebind ==
    /\ op \notin {"init", "rebind"}
    /\ res.cls = "TimeValue"
    /\ (res.value.cls = "int") => (abs(res.value.v) <= MaxCount)
    /\ a' = res
    /\ raw' = [cls |-> "TimeValue", value |-> res.value, rate |-> res.rate]
    /\ op' = "rebind"
    /\ n' = 0
    /\ UNCHANGED <<b, res, heap>>

NextTimeValue ==
    \/ TimeValueAdd \/ TimeValueSub \/ TimeValueMul \/ TimeValueFloorDiv
    \/ TimeValueAbs \/ TimeValueEq \/ TimeValueWithRate \/ TimeValueRebind

SpecTimeValue == InitTimeValue /\ [][NextTimeValue]_vars

\* v is a TimeValue that holds a count if it has a rate
CountIfRate(v) == (v.cls = "TimeValue" /\ Truthy(v.rate)) => v.value.cls = "int"

\* C25: a TimeValue built from a count, a TimeOffset or a Timestamp holds a
\* count when it has a rate and the payload it was given when it has none,
\* and so does every TimeValue that +, -, *, //, abs and the construction
\* from a TimeValue with a rate return: a count with a rate, a payload of
\* the kind of the left operand without.
C25_RateMeansCount ==
    /\ a.cls = "TimeValue"
    /\ CountIfRate(a)
    /\ ~Truthy(a.rate) => a.value = raw.value
    /\ CountIfRate(res)
    /\ (res.cls = "TimeValue" /\ ~Truthy(res.rate)) => res.value.cls = a.value.cls

\* C25 for the TimeValues that exist: the constructor's failures left out
C25_RateMeansCountIfBuilt ==
    (a.cls = "TimeValue") =>
        /\ CountIfRate(a)
        /\ ~Truthy(a.rate) => a.value = raw.value
        /\ CountIfRate(res)
        /\ (res.cls = "TimeValue" /\ ~Truthy(res.rate)) => res.value.cls = a.value.cls

\* C29: for TimeValues a and b, a == b is True exactly when b == a is True.
C29_EqSymmetric ==
    (op = "eq" /\ b.cls = "TimeValue") => ((res = TRUE_) <=> (TimeValue__eq__(b, a) = TRUE_))

(***************************************************************************)
(* TimeValueRange.subranges: a function that returns iter([self]) or the   *)
(* generator __inner, which walks the TimeValues of the range at the rate  *)
(* and yields the piece from one to the next.                              *)
(***************************************************************************)

\* Timestamp.from_timeoffset
Timestamp_from_timeoffset(toff_in) ==
    Try(mediatimestamp(toff_in), LAMBDA toff : Timestamp(sec(toff), ns(toff), sign(toff)))

\* TimeValue.as_timestamp
TimeValue_as_timestamp(self) ==
    IF self.value.cls = "Timestamp" THEN self.value
    ELSE IF self.value.cls = "TimeOffset" THEN Timestamp_from_timeoffset(self.value)
    ELSE Try(TimeValue_require_rate(self), LAMBDA rate : Timestamp_from_count(self.value.v, rate))

\* iter([]), the iterator of an empty range
EmptyIterator == [cls |-> "iterator", empty |-> TRUE, cur |-> None, last |-> None]

\* TimeValueRange.__iter__: the generator __inner(first, last) before its
\* first next(): cur is the TimeValue it tests next, the exception that
\* 'cur = cur + 1' raised when it raised
TimeValueRange__iter__(self) ==
    Try(TimeValueRange_is_empty(self), LAMBDA e :
    IF e.v THEN EmptyIterator
    ELSE IF IsNone(self.start) \/ IsNone(self.rate) THEN Raise("ValueError")
    ELSE
    Try(IF BitAnd(self.inclusivity, INCLUDE_START) # 0 THEN self.start
        ELSE TimeValue__add__(self.start, PyInt(1)),
        LAMBDA first :
    Try(IF IsNone(self.end) THEN None
        ELSE IF BitAnd(self.inclusivity, INCLUDE_END) # 0 THEN self.end
        ELSE TimeValue__sub__(self.end, PyInt(1)),
        LAMBDA last :
    [cls |-> "iterator", empty |-> FALSE, cur |-> first, last |-> last])))

\* next(it) on the iterator of a TimeValueRange: the TimeValue yielded with
\* the iterator after it, StopIteration, or the exception raised
TimeValueRange__iter__next(it) ==
    IF it.empty THEN [cls |-> "StopIteration"]
    ELSE
    Try(it.cur, LAMBDA cur :
    Try(IF IsNone(it.last) THEN PyBool(TRUE) ELSE TimeValue__le__(cur, it.last), LAMBDA more :
    IF ~more.v THEN [cls |-> "StopIteration"]
    ELSE [cls |-> "yield", tv |-> cur,
          it |-> [it EXCEPT !.cur = TimeValue__add__(cur, PyInt(1))]]))

\* TimeValueRange.subranges, the statements of the function: iter([self]) or
\* the generator __inner with its _rate, not started
TimeValueRange_subranges(self, rate) ==
    IF IsNone(rate) /\ IsNone(self.rate) THEN [cls |-> "list_iterator", items |-> <<self>>]
    ELSE
    Try(TimeValueRange_is_empty(self), LAMBDA e :
    IF e.v \/ IsNone(self.start) THEN [cls |-> "list_iterator", items |-> <<self>>]
    ELSE [cls |-> "generator", started |-> FALSE, finished |-> FALSE,
          rate |-> IF IsNone(rate) THEN self.rate ELSE rate,
          start |-> None, include_start |-> FALSE, it |-> None])

\* __inner of subranges, from its start to the for loop: the locals start
\* and include_start and the iterator of TimeValueRange(self, rate=_rate)
TimeValueRange_subranges_start(self, gen) ==
    Try(TimeValueRange(self, None, None, gen.rate), LAMBDA at_rate :
    Try(TimeValueRange__iter__(at_rate), LAMBDA it :
    [gen EXCEPT !.started = TRUE, !.start = self.start,
                !.include_start = (BitAnd(self.inclusivity, INCLUDE_START) # 0),
                !.it = it]))

\* TimeValueRange(start.as_timestamp(), end.as_timestamp(), rate=self.rate,
\* inclusivity=inclusivity), the piece __inner yields
TimeValueRange_subranges_piece(self, start, end, inclusivity) ==
    Try(TimeValue_as_timestamp(start), LAMBDA start_ts :
    Try(TimeValue_as_timestamp(end), LAMBDA end_ts :
    TimeValueRange(start_ts, end_ts, PyInt(inclusivity), self.rate)))

\* __inner of subranges, the statements after the for loop: the last piece
\* (the loop ends on a range with an end only)
TimeValueRange_subranges_last(self, gen) ==
    Try(TimeValueRange_subranges_piece(self, gen.start, self.end,
            BitOr(IF gen.include_start THEN INCLUDE_START ELSE EXCLUSIVE,
                  BitAnd(self.inclusivity, INCLUDE_END))),
        LAMBDA piece :
    [cls |-> "yield", piece |-> piece, gen |-> [gen EXCEPT !.finished = TRUE]])

\* __inner of subranges, the for loop from the iterator gen.it on: the
\* piece yielded with the generator suspended after it, or the exception
RECURSIVE TimeValueRange_subranges_loop(_, _)
TimeValueRange_subranges_loop(self, gen) ==
    Try(TimeValueRange__iter__next(gen.it), LAMBDA item :
    IF item.cls = "StopIteration" THEN TimeValueRange_subranges_last(self, gen)
    ELSE
    Try(TimeValue__eq__(item.tv, gen.start), LAMBDA at_start :
    IF at_start.v THEN TimeValueRange_subranges_loop(self, [gen EXCEPT !.it = item.it])
    ELSE
    Try(TimeValue__eq__(item.tv, self.end), LAMBDA at_end :
    IF at_end.v THEN TimeValueRange_subranges_last(self, gen)
    ELSE
    Try(TimeValueRange_subranges_piece(self, gen.start, item.tv,
            IF gen.include_start THEN INCLUDE_START ELSE EXCLUSIVE),
        LAMBDA piece :
    [cls |-> "yield", piece |-> piece,
     gen |-> [gen EXCEPT !.it = item.it, !.include_start = TRUE, !.start = item.tv]]))))

\* next(gen) on what subranges returned
TimeValueRange_subranges_next(self, gen) ==
    IF gen.cls = "list_iterator"
    THEN (IF gen.items = <<>> THEN [cls |-> "StopIteration"]
          ELSE [cls |-> "yield", piece |-> Head(gen.items),
                gen |-> [gen EXCEPT !.items = Tail(gen.items)]])
    ELSE IF gen.finished THEN [cls |-> "StopIteration"]
    ELSE IF gen.started THEN TimeValueRange_subranges_loop(self, gen)
    ELSE Try(TimeValueRange_subranges_start(self, gen),
             LAMBDA started : TimeValueRange_subranges_loop(self, started))

(***************************************************************************)
(* Specification of subranges: a client holds a TimeValueRange a, calls    *)
(* a.subranges(raw) and draws the pieces from the iterator b it got; heap  *)
(* holds the pieces drawn.                                                 *)
(***************************************************************************)

\* TimeValueRanges of counts and of TimeOffsets, without a rate, at one unit
\* a second and at three units in two seconds
SubrangeRanges ==
    UNION {RangesOf(k) : k \in [cls : {"TimeValueRange"}, of : {"int", "TimeOffset"},
                                rate : {None, Fraction(1, 1), Fraction(3, 2)}]}

\* the rate argument: left out, one and two units a second
SubrangeRates == {None, Fraction(1, 1), Fraction(2, 1)}

InitSubranges ==
    /\ a \in SubrangeRanges
    /\ raw \in SubrangeRates
    /\ b = None
    /\ n = 0
    /\ op = "init"
    /\ res = None
    /\ heap = <<>>

\* b = a.subranges(raw)
Subranges ==
    /\ op = "init"
    /\ op' = "subranges"
    /\ b' = TimeValueRange_subranges(a, raw)
    /\ UNCHANGED <<a, n, raw, res, heap>>

\* The outcome r of next(b): a piece yielded joins heap, anything else ends
\* the iteration.
ResumeSubranges(r) ==
    /\ op' = "next"
    /\ res' = IF r.cls = "yield" THEN r.piece ELSE r
    /\ b' = IF r.cls = "yield" THEN r.gen ELSE b
    /\ heap' = IF r.cls = "yield" THEN Append(heap, r.piece) ELSE heap
    /\ UNCHANGED <<a, n, raw>>

\* next(b)
NextSubrange ==
    /\ op \in {"subranges", "next"}
    /\ ~IsRaise(b)
    /\ (op = "next") => (res.cls = "TimeValueRange" /\ Len(heap) < MaxHeap)
    /\ ResumeSubranges(TimeValueRange_subranges_next(a, b))

NextSubranges == Subranges \/ NextSubrange

SpecSubranges == InitSubranges /\ [][NextSubranges]_vars

\* p in r is True
In(r, p) == TimeValueRange__contains__(r, p) = TRUE_

\* C26: for a TimeValueRange with a start and a rate, its own or the
\* argument, subranges yields pieces and no error; every piece lies inside
\* the range, no value is in two pieces, each piece ends where the next one
\* starts, the first piece includes its start iff the range does; and when
\* the iteration stops every value of the range is in a piece and the last
\* piece includes its end iff the range does.
C26_SubrangesPartition ==
    (op = "next" /\ ~IsNone(a.start) /\ (~IsNone(raw) \/ ~IsNone(a.rate))) =>
        /\ res.cls \in {"TimeValueRange", "StopIteration"}
        /\ \A i \in 1 .. Len(heap) : \A p \in TimeValuePoints :
              In(heap[i], p) => (In(a, p) /\ \A j \in 1 .. Len(heap) : (j # i) => ~In(heap[j], p))
        /\ \A i \in 1 .. (Len(heap) - 1) : TimeValueOptEq(heap[i].end, heap[i + 1].start) = TRUE_
        /\ (heap # <<>>) =>
              (BitAnd(heap[1].inclusivity, INCLUDE_START) = BitAnd(a.inclusivity, INCLUDE_START))
        /\ (res.cls = "StopIteration") =>
              /\ heap # <<>>
              /\ \A p \in TimeValuePoints : In(a, p) => \E i \in 1 .. Len(heap) : In(heap[i], p)
              /\ BitAnd(heap[Len(heap)].inclusivity, INCLUDE_END) = BitAnd(a.inclusivity, INCLUDE_END)

\* C26 for the ranges subranges does not divide: an empty range and a range
\* without a start or without any rate come back as the only piece
C26_UndividedRange ==
    (op = "next" /\ b.cls = "list_iterator") =>
        /\ res.cls \in {"TimeValueRange", "StopIteration"}
        /\ heap = <<a>>

(***************************************************************************)
(* TimeValueRange.merge_into_ordered_ranges                                *)
(***************************************************************************)

\* TimeValueRange.is_earlier_than_range
TimeValueRange_is_earlier_than_range(self, other_in) ==
    Try(TimeValueRange_as_time_value_range(self, other_in), LAMBDA other :
    Try(TimeValueRange_is_empty(self), LAMBDA se :
    IF se.v THEN PyBool(FALSE) ELSE
    Try(TimeValueRange_is_empty(other), LAMBDA oe :
    IF oe.v \/ IsNone(other.start) \/ IsNone(self.end) THEN PyBool(FALSE) ELSE
    Try(TimeValue__lt__(self.end, other.start), LAMBDA l :
    IF l.v THEN PyBool(TRUE) ELSE
    Try(TimeValue__eq__(self.end, other.start), LAMBDA e :
    PyBool(/\ e.v
           /\ ~(/\ BitAnd(self.inclusivity, INCLUDE_END) # 0
                /\ BitAnd(other.inclusivity, INCLUDE_START) # 0)))))))

\* TimeValueRange.is_later_than_range
TimeValueRange_is_later_than_range(self, other_in) ==
    Try(TimeValueRange_as_time_value_range(self, other_in), LAMBDA other :
    Try(TimeValueRange_is_empty(self), LAMBDA se :
    IF se.v THEN PyBool(FALSE) ELSE
    Try(TimeValueRange_is_empty(other), LAMBDA oe :
    IF oe.v \/ IsNone(other.end) \/ IsNone(self.start) THEN PyBool(FALSE) ELSE
    Try(TimeValue__gt__(self.start, other.end), LAMBDA g :
    IF g.v THEN PyBool(TRUE) ELSE
    Try(TimeValue__eq__(self.start, other.end), LAMBDA e :
    PyBool(/\ e.v
           /\ ~(/\ BitAnd(self.inclusivity, INCLUDE_START) # 0
                /\ BitAnd(other.inclusivity, INCLUDE_END) # 0)))))))

\* The body of overlaps_with_range, where e is the outcome of
\* self.is_earlier_than_range(other) and l that of
\* self.is_later_than_range(other): l is looked at only if e is False
TimeValueRange_overlaps(e, l) ==
    IF IsRaise(e) THEN e
    ELSE IF e.v THEN PyBool(FALSE)
    ELSE IF IsRaise(l) THEN l
    ELSE PyBool(~l.v)

\* TimeValueRange.overlaps_with_range.  The two calls convert other
\* themselves, and converting a converted range returns it
\* (ConvertedRangeIsKept), so the conversion at the head of the method is
\* left to them.
TimeValueRange_overlaps_with_range(self, other_in) ==
    TimeValueRange_overlaps(TimeValueRange_is_earlier_than_range(self, other_in),
                            TimeValueRange_is_later_than_range(self, other_in))

\* 'x == y and (f or g)' of is_contiguous_with_range: same is the outcome
\* of x == y, either that of 'f or g'
TimeValueRange_touches(same, either) ==
    IF IsRaise(same) THEN same ELSE PyBool(same.v /\ either)

\* Lines 563-564 of is_contiguous_with_range: self ends where other starts
\* and one of the two includes that bound
TimeValueRange_ends_at_start_of(self, other) ==
    TimeValueRange_touches(TimeValue__eq__(self.end, other.start),
                           \/ BitAnd(self.inclusivity, INCLUDE_END) # 0
                           \/ BitAnd(other.inclusivity, INCLUDE_START) # 0)

\* Lines 566-567 of is_contiguous_with_range: self starts where other ends
\* and one of the two includes that bound
TimeValueRange_starts_at_end_of(self, other) ==
    TimeValueRange_touches(TimeValue__eq__(self.start, other.end),
                           \/ BitAnd(self.inclusivity, INCLUDE_START) # 0
                           \/ BitAnd(other.inclusivity, INCLUDE_END) # 0)

\* The clauses of is_contiguous_with_range in their order.  o is the outcome
\* of overlaps_with_range, e and l are as in TimeValueRange_overlaps, q is
\* the outcome of lines 563-564 and t that of lines 566-567.  A range that
\* is earlier than other has an end and other a start, so q is looked at
\* only when e is True, and t only when l is.
TimeValueRange_is_contiguous_clauses(o, e, l, q, t) ==
    IF IsRaise(o) THEN o
    ELSE IF o.v THEN PyBool(TRUE)
    ELSE IF e.v /\ IsRaise(q) THEN q
    ELSE IF e.v /\ q.v THEN PyBool(TRUE)
    ELSE IF IsRaise(l) THEN l
    ELSE IF l.v THEN t
    ELSE PyBool(FALSE)

\* is_contiguous_with_range without its two clauses for ranges that touch:
\* ranges are taken as contiguous only when they overlap
TimeValueRange_is_contiguous_OverlapOnly(self, other, e, l) ==
    IF IsRaise(other) THEN other ELSE TimeValueRange_overlaps(e, l)

\* The body of is_contiguous_with_range: other is the outcome of the
\* conversion, e and l are as in TimeValueRange_overlaps
TimeValueRange_is_contiguous(self, other, e, l) ==
    IF IsRaise(other) THEN other
    ELSE TimeValueRange_is_contiguous_clauses(
             TimeValueRange_overlaps(e, l), e, l,
             TimeValueRange_ends_at_start_of(self, other),
             TimeValueRange_starts_at_end_of(self, other))

\* TimeValueRange.is_contiguous_with_range
TimeValueRange_is_contiguous_with_range(self, other_in) ==
    TimeValueRange_is_contiguous(self, TimeValueRange_as_time_value_range(self, other_in),
                                 TimeValueRange_is_earlier_than_range(self, other_in),
                                 TimeValueRange_is_later_than_range(self, other_in))

\* A list of ranges
List(items) == [cls |-> "list", items |-> items]

\* 'c or o', the test of the first branch of the loop of
\* merge_into_ordered_ranges
TimeValueRange_merge_combines(c, o) ==
    IF IsRaise(c) THEN c ELSE IF c.v THEN c ELSE o

RECURSIVE TimeValueRange_merge_loop(_, _, _, _)

\* The branches of the loop of merge_into_ordered_ranges for the i-th
\* existing range: c is the outcome of the test of the first branch, x of
\* new_range.extend_to_encompass_range(existing_range), e and l of
\* existing_range.is_earlier_than_range(new_range) and
\* existing_range.is_later_than_range(new_range)
TimeValueRange_merge_branch(new_range, ranges, i, out, c, x, e, l) ==
    IF IsRaise(c) THEN c
    ELSE IF c.v /\ IsRaise(x) THEN x
    ELSE IF c.v THEN TimeValueRange_merge_loop(x, ranges, i + 1, out)
    ELSE IF IsRaise(e) THEN e
    ELSE IF e.v
    THEN TimeValueRange_merge_loop(new_range, ranges, i + 1, Append(out, ranges[i]))
    ELSE IF IsRaise(l) THEN l
    ELSE IF l.v
    THEN TimeValueRange_merge_loop(ranges[i], ranges, i + 1, Append(out, new_range))
    ELSE TimeValueRange_merge_loop(new_range, ranges, i + 1, out)

\* One turn of the loop.  The ranges are immutable and the tests are pure:
\* the turn calls is_earlier_than_range and is_later_than_range on the same
\* two ranges up to three times each, directly and through
\* is_contiguous_with_range and overlaps_with_range, and e and l stand for
\* these calls.
TimeValueRange_merge_turn(new_range, ranges, i, out, e, l) ==
    TimeValueRange_merge_branch(
        new_range, ranges, i, out,
        TimeValueRange_merge_combines(
            TimeValueRange_is_contiguous(
                ranges[i], TimeValueRange_as_time_value_range(ranges[i], new_range), e, l),
            TimeValueRange_overlaps(e, l)),
        TimeValueRange_extend_to_encompass_range(new_range, ranges[i]),
        e, l)

\* The loop of merge_into_ordered_ranges from the i-th existing range on:
\* out holds the ranges yielded so far.
TimeValueRange_merge_loop(new_range, ranges, i, out) ==
    IF i > Len(ranges) THEN List(Append(out, new_range))
    ELSE TimeValueRange_merge_turn(
             new_range, ranges, i, out,
             TimeValueRange_is_earlier_than_range(ranges[i], new_range),
             TimeValueRange_is_later_than_range(ranges[i], new_range))

\* list(self.merge_into_ordered_ranges(ranges))
TimeValueRange_merge_into_ordered_ranges(self, ranges) ==
    TimeValueRange_merge_loop(self, ranges, 1, <<>>)

(***************************************************************************)
(* Specification of merging: a client keeps an ordered list of ranges in   *)
(* heap, empty at first, and merges one range after the other into it.     *)
(* b is the kind of the ranges, raw the values contained in the ranges      *)
(* merged so far.                                                          *)
(***************************************************************************)

\* The bounds of the merged ranges are the even values up to MaxMerge, the
\* values asked about reach from below the least bound to above the greatest
MaxMerge == 4
MergeValues == -1 .. (MaxMerge + 2)

\* The time value of kind k for the integer v: a count, or the TimeOffset
\* of v nanoseconds
ValueOf(k, v) ==
    IF k.of = "int" THEN PyInt(v)
    ELSE TimeOffset(abs(v) \div MAX_NANOSEC, abs(v) % MAX_NANOSEC, Sgn(v))

\* Counts at one unit a second, and TimeOffsets without a rate
MergeKinds ==
    {[of |-> "int", rate |-> Fraction(1, 1)], [of |-> "TimeOffset", rate |-> None]}

MergeBounds(k) == {None} \cup {ValueOf(k, 2 * v) : v \in 0 .. (MaxMerge \div 2)}

\* The ranges of kind k, as the constructor builds them
MergeRanges(k) ==
    {TimeValueRange(s, e, PyInt(i), k.rate) :
        s \in MergeBounds(k), e \in MergeBounds(k), i \in Inclusivities}

\* The values of kind k that r contains
ValuesIn(k, r) == {v \in MergeValues : In(r, ValueOf(k, v))}

\* The ranges a merge meets: those of kind k and, as extending a range
\* without bounds returns it without its rate, the range without bounds and
\* without a rate
MergeFamily(k) ==
    MergeRanges(k) \cup {TimeValueRange(None, None, PyInt(INCLUSIVE), None)}

\* Converting a converted range returns it: for ranges r and s a merge
\* meets, a second r._as_time_value_range leaves r._as_time_value_range(s)
\* as it is
ConvertedRangeIsKept ==
    \A k \in MergeKinds : \A r \in MergeFamily(k) : \A s \in MergeFamily(k) :
        Let(TimeValueRange_as_time_value_range(r, s), LAMBDA c :
            TimeValueRange_as_time_value_range(r, c) = c)

\* The ranges a merge meets are closed under extend_to_encompass_range
ExtensionIsOfKind ==
    \A k \in MergeKinds : \A r \in MergeFamily(k) : \A s \in MergeFamily(k) :
        TimeValueRange_extend_to_encompass_range(r, s) \in MergeFamily(k)

InitMerge ==
    /\ b \in MergeKinds
    /\ a = None
    /\ raw = {}
    /\ n = 0
    /\ op = "init"
    /\ res = None
    /\ heap = <<>>

\* The outcome m of r.merge_into_ordered_ranges(heap) replaces heap
ApplyMerge(r, m) ==
    /\ op' = "merge"
    /\ res' = m
    /\ heap' = IF m.cls = "list" THEN m.items ELSE heap
    /\ raw' = raw \cup ValuesIn(b, r)
    /\ UNCHANGED <<a, b, n>>

\* heap = list(r.merge_into_ordered_ranges(heap))
Merge ==
    \E r \in MergeRanges(b) :
        ApplyMerge(r, TimeValueRange_merge_into_ordered_ranges(r, heap))

NextMerge == Merge

SpecMerge == InitMerge /\ [][NextMerge]_vars

\* The ranges x and y hold the value sets cx and cy: x is before y, and a
\* value that neither contains lies between them
Apart(cx, cy) ==
    /\ cx # {}
    /\ cy # {}
    /\ \E w \in MergeValues : (\A u \in cx : u < w) /\ (\A v \in cy : w < v)

\* C27: after any sequence of merges into a list that was empty at first,
\* the list returned is in chronological order, its ranges neither overlap
\* nor touch, and a value is in one of its ranges iff it is in one of the
\* ranges merged.
C27_MergeIsUnion ==
    (op = "merge") =>
        /\ res.cls = "list"
        /\ Let([i \in 1 .. Len(heap) |-> ValuesIn(b, heap[i])], LAMBDA c :
              /\ UNION {c[i] : i \in 1 .. Len(heap)} = raw
              /\ \A i \in 1 .. (Len(heap) - 1) : Apart(c[i], c[i + 1]))

\* Merges have left a list of two ranges, the first of them closed at both
\* ends and the second without an end
C27_Witness ==
    /\ op = "merge"
    /\ Len(heap) = 2
    /\ raw = {0, 1, 2, 4, 5, 6}
    /\ heap[1].inclusivity = INCLUSIVE
    /\ IsNone(heap[2].end)

(***************************************************************************)
(* TimeValueRange.complement_of_ordered_subranges                          *)
(***************************************************************************)

\* The end of split_at and split_after: c is the outcome of 'value in self',
\* left and right those of the two constructor calls
TimeValueRange_split_pieces(c, left, right) ==
    IF IsRaise(c) THEN c
    ELSE IF ~c.v THEN Raise("ValueError")
    ELSE IF IsRaise(left) THEN left
    ELSE IF IsRaise(right) THEN right
    ELSE Tuple(left, right)

\* split_at (after is FALSE) and split_after (after is TRUE) for the
\* converted value: the splitting point goes to the second piece, or to the
\* first
TimeValueRange_split_value(self, value, after) ==
    IF IsRaise(value) THEN value
    ELSE TimeValueRange_split_pieces(
             TimeValueRange__contains__(self, value),
             TimeValueRange(self.start, value,
                            PyInt(BitOr(IF after THEN INCLUDE_END ELSE EXCLUSIVE,
                                        BitAnd(self.inclusivity, INCLUDE_START))),
                            None),
             TimeValueRange(value, self.end,
                            PyInt(BitOr(IF after THEN EXCLUSIVE ELSE INCLUDE_START,
                                        BitAnd(self.inclusivity, INCLUDE_END))),
                            None))

\* TimeValueRange.split_at and TimeValueRange.split_after
TimeValueRange_split(self, value_in, after) ==
    TimeValueRange_split_value(self, TimeValueRange_as_time_value(self, value_in), after)

\* TimeValueRange.split_after
TimeValueRange_split_after(self, value_in) == TimeValueRange_split(self, value_in, TRUE)

\* The branches of excluding_before_start_of_range (before is TRUE) and of
\* excluding_up_to_end_of_range: oe is the outcome of other.is_empty(), apart
\* that of other.is_later_than_range(self) (other.is_earlier_than_range(self)),
\* bound is other.start (other.end), c the outcome of 'bound in self' and s
\* that of the split, of which the first (second) piece is returned
TimeValueRange_excluding_branches(self, before, oe, apart, bound, c, s, empty) ==
    IF IsRaise(oe) THEN oe
    ELSE IF oe.v THEN self
    ELSE IF IsRaise(apart) THEN apart
    ELSE IF apart.v THEN self
    ELSE IF IsNone(bound) THEN empty
    ELSE IF IsRaise(c) THEN c
    ELSE IF ~c.v THEN empty
    ELSE IF IsRaise(s) THEN s
    ELSE IF before THEN s.first ELSE s.second

\* excluding_before_start_of_range and excluding_up_to_end_of_range for the
\* converted range other and its bound there: the range is split at the
\* bound, or after it, so that the bound goes to the piece left out exactly
\* if other includes it
TimeValueRange_excluding_at(self, other, before, bound, flag) ==
    TimeValueRange_excluding_branches(
        self, before, TimeValueRange_is_empty(other),
        IF before THEN TimeValueRange_is_later_than_range(other, self)
        ELSE TimeValueRange_is_earlier_than_range(other, self),
        bound, TimeValueRange__contains__(self, bound),
        TimeValueRange_split(self, bound, (BitAnd(other.inclusivity, flag) = 0) = before),
        TimeValueRange_never)

\* excluding_before_start_of_range and excluding_up_to_end_of_range for the
\* converted range other
TimeValueRange_excluding(self, other, before) ==
    IF IsRaise(other) THEN other
    ELSE TimeValueRange_excluding_at(self, other, before,
                                     IF before THEN other.start ELSE other.end,
                                     IF before THEN INCLUDE_START ELSE INCLUDE_END)

\* TimeValueRange.excluding_before_start_of_range (before is TRUE) and
\* TimeValueRange.excluding_up_to_end_of_range
TimeValueRange_excluding_part_of_range(self, other_in, before) ==
    TimeValueRange_excluding(self, TimeValueRange_as_time_value_range(self, other_in), before)

\* TimeValueRange.excluding_before_start_of_range
TimeValueRange_excluding_before_start_of_range(self, other_in) ==
    TimeValueRange_excluding_part_of_range(self, other_in, TRUE)

\* TimeValueRange.excluding_up_to_end_of_range
TimeValueRange_excluding_up_to_end_of_range(self, other_in) ==
    TimeValueRange_excluding_part_of_range(self, other_in, FALSE)

RECURSIVE TimeValueRange_complement_loop(_, _, _, _)

\* The end of a turn of the loop of complement_of_ordered_subranges:
\* range_before is yielded unless empty (be is the outcome of its
\* is_empty()), and current_timerange becomes after, the outcome of
\* excluding_up_to_end_of_range
TimeValueRange_complement_yield(ranges, i, out, range_before, be, after) ==
    IF IsRaise(be) THEN be
    ELSE IF IsRaise(after) THEN after
    ELSE TimeValueRange_complement_loop(
             after, ranges, i + 1, IF be.v THEN out ELSE Append(out, range_before))

\* One turn of the loop: ee is the outcome of existing_range.is_empty(),
\* range_before that of excluding_before_start_of_range
TimeValueRange_complement_turn(current_timerange, ranges, i, out, ee, range_before, after) ==
    IF IsRaise(ee) THEN ee
    ELSE IF ee.v THEN TimeValueRange_complement_loop(current_timerange, ranges, i + 1, out)
    ELSE IF IsRaise(range_before) THEN range_before
    ELSE TimeValueRange_complement_yield(
             ranges, i, out, range_before, TimeValueRange_is_empty(range_before), after)

\* One turn of the loop, given the parts of current_timerange before the
\* start of the i-th range and after its end
TimeValueRange_complement_parts(current_timerange, ranges, i, out, part) ==
    TimeValueRange_complement_turn(current_timerange, ranges, i, out,
                                   TimeValueRange_is_empty(ranges[i]), part[TRUE], part[FALSE])

\* After the loop: current_timerange is yielded unless empty (ce)
TimeValueRange_complement_rest(current_timerange, out, ce) ==
    IF IsRaise(ce) THEN ce
    ELSE List(IF ce.v THEN out ELSE Append(out, current_timerange))

\* The loop of complement_of_ordered_subranges from the i-th range on: out
\* holds the ranges yielded so far
TimeValueRange_complement_loop(current_timerange, ranges, i, out) ==
    IF i > Len(ranges)
    THEN TimeValueRange_complement_rest(current_timerange, out,
                                        TimeValueRange_is_empty(current_timerange))
    ELSE TimeValueRange_complement_parts(
             current_timerange, ranges, i, out,
             [before \in BOOLEAN |->
                 TimeValueRange_excluding_part_of_range(current_timerange, ranges[i], before)])

\* list(self.complement_of_ordered_subranges(ranges))
TimeValueRange_complement_of_ordered_subranges(self, ranges) ==
    TimeValueRange_complement_loop(self, ranges, 1, <<>>)

(***************************************************************************)
(* Specification of the complement: a client holds a range a and a list    *)
(* heap of ranges in chronological order, no two of them with a common     *)
(* value, and takes the complement of the list in a.  b is the kind of the *)
(* ranges.                                                                 *)
(***************************************************************************)

\* Every value of cx is before every value of cy, and neither is empty
Before(cx, cy) ==
    /\ cx # {}
    /\ cy # {}
    /\ \A u \in cx : \A v \in cy : u < v

\* The lists of at most two of the ranges of the table c, which gives the
\* values of every range, in chronological order
OrderedListsOf(c) ==
    {<<>>}
    \cup {<<r>> : r \in {x \in DOMAIN c : c[x] # {}}}
    \cup {<<p[1], p[2]>> : p \in {q \in (DOMAIN c) \X (DOMAIN c) : Before(c[q[1]], c[q[2]])}}

\* The lists of at most two ranges of kind k, in chronological order
OrderedLists(k) == OrderedListsOf([r \in MergeRanges(k) |-> ValuesIn(k, r)])

InitComplement ==
    /\ \E k \in MergeKinds : \E p \in MergeRanges(k) \X OrderedLists(k) :
          /\ b = k
          /\ a = p[1]
          /\ heap = p[2]
    /\ raw = {}
    /\ n = 0
    /\ op = "init"
    /\ res = None

\* res = list(a.complement_of_ordered_subranges(heap))
Complement ==
    /\ op = "init"
    /\ op' = "complement"
    /\ res' = TimeValueRange_complement_of_ordered_subranges(a, heap)
    /\ UNCHANGED <<a, b, n, raw, heap>>

NextComplement == Complement

SpecComplement == InitComplement /\ [][NextComplement]_vars

\* The values of the ranges of the list s of kind k
ValuesInList(k, s) == UNION {ValuesIn(k, s[i]) : i \in 1 .. Len(s)}

\* C28: the complement of an ordered list of disjoint ranges in a is a list
\* of ranges, none of them empty, in chronological order and without common
\* values, all inside a, that contain exactly the values of a that no range
\* of the list contains.
C28_ComplementOfList ==
    (op = "complement") =>
        /\ res.cls = "list"
        /\ \A i \in 1 .. Len(res.items) : TimeValueRange_is_empty(res.items[i]) = PyBool(FALSE)
        /\ Let([i \in 1 .. Len(res.items) |-> ValuesIn(b, res.items[i])], LAMBDA c :
              /\ \A i \in 1 .. (Len(res.items) - 1) : Before(c[i], c[i + 1])
              /\ UNION {c[i] : i \in 1 .. Len(res.items)}
                    = ValuesIn(b, a) \ ValuesInList(b, heap))

\* C28 for the cases in which the range a is not used up before the list
\* is: a is not empty and reaches beyond the end of every range of the list
C28_ComplementWhileRangeLasts ==
    (/\ op = "complement"
     /\ ValuesIn(b, a) # {}
     /\ \A i \in 1 .. Len(heap) :
           \E v \in ValuesIn(b, a) : \A u \in ValuesIn(b, heap[i]) : u < v) =>
        /\ res.cls = "list"
        /\ Let([i \in 1 .. Len(res.items) |-> ValuesIn(b, res.items[i])], LAMBDA c :
              /\ \A i \in 1 .. (Len(res.items) - 1) : Before(c[i], c[i + 1])
              /\ UNION {c[i] : i \in 1 .. Len(res.items)}
                    = ValuesIn(b, a) \ ValuesInList(b, heap))

(***************************************************************************)
(* Specification of the two classes side by side: a client holds a         *)
(* TimeOffset a, builds the Timestamp of the same sec, ns and sign, and    *)
(* applies one operation with the same arguments to both.  res is the pair *)
(* of the outcomes, b the argument, raw the rate and n the rounding mode.  *)
(***************************************************************************)

\* The Timestamp built from the fields of the TimeOffset x
TimestampOf(x) == Timestamp(x.sec, x.ns, x.sign)

\* The time values of either class with seconds up to MaxInt
SmallValues ==
    {Construct([cls |-> c, sec |-> s, ns |-> m, sign |-> g]) :
        c \in {"TimeOffset", "Timestamp"}, s \in 0 .. MaxInt,
        m \in 0 .. (MAX_NANOSEC - 1), g \in {-1, 1}}

InitBoth ==
    /\ a \in {x \in SmallValues : x.cls = "TimeOffset"}
    /\ b = None
    /\ raw = None
    /\ n = 0
    /\ op = "init"
    /\ res = None
    /\ heap = <<>>

\* The outcomes x (of the TimeOffset) and y (of the Timestamp) of operation
\* o with the argument arg, the rate r and the rounding mode m
ApplyBoth(o, arg, r, m, x, y) ==
    /\ op' = o
    /\ b' = arg
    /\ raw' = r
    /\ n' = m
    /\ res' = Tuple(x, y)
    /\ UNCHANGED <<a, heap>>

AddBoth ==
    \E y \in SmallValues :
       ApplyBoth("add", y, None, 0, TimeOffset__add__(a, y), Timestamp__add__(TimestampOf(a), y))

SubBoth ==
    \E y \in SmallValues :
       ApplyBoth("sub", y, None, 0, TimeOffset__sub__(a, y), Timestamp__sub__(TimestampOf(a), y))

MulBoth ==
    \E k \in Ints :
       ApplyBoth("mul", PyInt(k), None, 0, TimeOffset__mul__(a, k), Timestamp__mul__(TimestampOf(a), k))

FloorDivBoth ==
    \E k \in Ints :
       ApplyBoth("floordiv", PyInt(k), None, 0,
                 TimeOffset__floordiv__(a, k), Timestamp__floordiv__(TimestampOf(a), k))

ToCountBoth ==
    \E r \in SampleRates : \E m \in Roundings :
       ApplyBoth("to_count", None, r, m,
                 TimeOffset_to_count(a, r, m), Timestamp_to_count(TimestampOf(a), r, m))

NormaliseBoth ==
    \E r \in SampleRates : \E m \in Roundings :
       ApplyBoth("normalise", None, r, m,
                 TimeOffset_normalise(a, r, m), Timestamp_normalise(TimestampOf(a), r, m))

NextBoth == AddBoth \/ SubBoth \/ MulBoth \/ FloorDivBoth \/ ToCountBoth \/ NormaliseBoth

SpecBoth == InitBoth /\ [][NextBoth]_vars

\* What a caller sees of an outcome: the exception, the integer, or the
\* signed nanoseconds of the time value
SeenOf(x) ==
    IF IsRaise(x) THEN x
    ELSE IF x.cls = "int" THEN x
    ELSE PyInt(to_nanosec(x))

\* C30: +, -, * by an integer, // by an integer, to_count and normalise
\* give the same signed nanoseconds (or the same count) on a TimeOffset and
\* on the Timestamp of the same sec, ns and sign, for the same arguments.
C30_SameArithmetic ==
    (op # "init") => SeenOf(res.first) = SeenOf(res.second)

\* C30 without the two cases that differ: a TimeOffset as the other operand
\* of + and -, and a quotient below zero that is not whole
C30_SameButOffsetOperandAndNegativeQuotient ==
    (/\ op # "init"
     /\ ~(op \in {"add", "sub"} /\ b.cls = "TimeOffset")
     /\ ~(/\ op = "floordiv"
          /\ b.v # 0
          /\ (to_nanosec(a) < 0) # (b.v < 0)
          /\ to_nanosec(a) % abs(b.v) # 0)) =>
        SeenOf(res.first) = SeenOf(res.second)

\* The quotients that differ: the TimeOffset is rounded towards zero, the
\* Timestamp towards minus infinity
C30_NegativeQuotient ==
    (/\ op = "floordiv"
     /\ b.v # 0
     /\ (to_nanosec(a) < 0) # (b.v < 0)
     /\ to_nanosec(a) % abs(b.v) # 0) =>
        SeenOf(res.second) = PyInt(SeenOf(res.first).v - 1)

\* A quotient that differs: -0:1 // 2 is 0:0 for the TimeOffset and -0:1
\* for the Timestamp
C30_NegativeQuotientReached ==
    /\ op = "floordiv"
    /\ a = TimeOffset(0, 1, -1)
    /\ b = PyInt(2)
    /\ res = Tuple(TimeOffset(0, 0, 1), Timestamp(0, 1, -1))
====
